---- MODULE Spec2Model ----
(***************************************************************************)
(* A model of the indirect-object repository and of the cross-reference    *)
(* resolution engine of pdfmm: PdfParser (revision chain, classic tables,  *)
(* trailer merge, object materialization) and PdfIndirectObjectList.       *)
(*                                                                         *)
(* The input file is abstract: an offset names a place of the file at      *)
(* which a cross-reference section may start.  Its bytes are drawn from    *)
(* bounded sets when the parser first reads them; what the parser can      *)
(* read twice (the sections of a chain with arbitrary /Prev and /XRefStm   *)
(* pointers) is stored in `file` so that a second read sees the same       *)
(* bytes.                                                                  *)
(***************************************************************************)
EXTENDS Integers, Sequences, FiniteSets, TLC

\* ---------------------------------------------------------------- bounds
NOff == 2          \* offsets 1..NOff lie inside the file
MaxObj == 3        \* tables describe object numbers 0..MaxObj-1
MaxSubs == 2       \* subsections drawn per classic section
MaxRecs == 2       \* records drawn per subsection or cross-reference stream
MaxGen == 2        \* the largest generation number (65535 in the format)
MaxOps == 2        \* repository operations after a load
MaxLoads == 2      \* loads into one repository
MaxPages == 3      \* pages a page tree holds at most
MaxLevel == 2      \* extension levels 1..MaxLevel
MaxSize == 2       \* elements of an array

\* ------------------------------------------------------- program constants
MaxRecursionDepth == 500
MAX_XREF_SESSION_COUNT == 512

Beyond == NOff + 1                 \* an offset larger than the file size
Offsets == 1..NOff
TrailerKeys == {"Size", "Root", "Encrypt", "Info", "ID"}
NoErr == "None"

VARIABLES
    corpus,                 \* which family of input files is drawn
    file,                   \* the sections of the file read so far (chain corpus)
    m_StrictParsing, m_LoadOnDemand, m_IgnoreBrokenObjects,
    m_magicOffset, oldVersion, m_HasXRefStream, m_XRefOffset,
    m_Trailer, m_entries, m_ObjectStreams,
    m_visitedXRefOffsets, m_RecursionDepth,
    stack,                  \* the frames of ReadXRefContents / ReadNextTrailer / ReadXRefStreamContents
    exc,                    \* the PdfError in flight, NoErr when none
    pc,                     \* where PdfParser::Parse stands
    loopI,                  \* the loop index of ReadObjectsInternal
    lastError,              \* the error Parse raised to its caller
    firstDef,               \* history: per trailer key, the first trailer read that defines it
    cycleErr,               \* history: the frame that asked for an already visited offset
    repeated,               \* history: the last trailer whose /Prev named a visited offset
    lastRead,               \* history: the last subsection read and the table before it
    m_Objects, m_FreeObjects, m_ObjectCount, m_UnavailableObjects,
    m_CanReuseObjectNumbers,
    docTrailer,             \* the references held by the document's trailer
    nOps, nLoads,           \* counters that bound the runs
    lastOp,                 \* history: the last two repository operations, oldest first
    m_Encrypt,              \* whether the parser holds an encryption object
    m_password,             \* the password given to the parser
    encrypt,                \* the value of the trailer's Encrypt entry, once read
    retry,                  \* history: this Parse follows an InvalidPassword and a correct password
    m_device,               \* the bytes of one indirect object of the file
    parserObject,           \* the PdfParserObject bound to these bytes
    lastCall,               \* history: the last call on the object and what it had before
    streamHist,             \* history: per container, the requests, the parses, the container found
    m_Writer,               \* the PdfImmediateWriter of a PdfStreamedDocument and its device
    memDoc,                 \* a loaded PdfMemDocument and the sink SaveUpdate appends to
    pages                   \* a PdfPageCollection: the objects of its tree and its cache

parserVars == <<m_StrictParsing, m_LoadOnDemand, m_IgnoreBrokenObjects,
                m_magicOffset, oldVersion, m_HasXRefStream, m_XRefOffset,
                m_Trailer, m_entries, m_ObjectStreams,
                m_visitedXRefOffsets, m_RecursionDepth>>
ctlVars == <<stack, exc, pc, loopI, lastError>>
histVars == <<firstDef, cycleErr, repeated, lastRead>>
repoVars == <<m_Objects, m_FreeObjects, m_ObjectCount, m_UnavailableObjects,
              m_CanReuseObjectNumbers>>
encVars == <<m_Encrypt, m_password, encrypt, retry>>
objVars == <<m_device, parserObject, lastCall>>
sideRest == <<objVars, m_Writer, memDoc, pages>>
sideVars == <<sideRest, streamHist>>
loadVars == <<corpus, file, parserVars, ctlVars, histVars, repoVars, docTrailer,
              nOps, nLoads, lastOp, encVars>>
vars == <<loadVars, sideVars>>

\* ------------------------------------------------------------ small helpers
Min(a, b) == IF a <= b THEN a ELSE b
Range(s) == {s[i] : i \in DOMAIN s}
Top == stack[Len(stack)]
Pop(s) == SubSeq(s, 1, Len(s) - 1)
SetTop(s, f) == [s EXCEPT ![Len(s)] = f]

\* ------------------------------------------------------- the input: records
\* One 20-byte record of a classic table: offset / next free number,
\* generation, type character, and whether its end-of-line pair is legal.
\* Type "c" is the compressed kind only a cross-reference stream can hold:
\* there variant is the container's number and gen the index inside it.
Rec(t, v, g, e) == [type |-> t, variant |-> v, gen |-> g, eol |-> e]
CRLF == <<"CR", "LF">>
SPLF == <<"SP", "LF">>
LFLF == <<"LF", "LF">>

ChainRecs == <<Rec("f", 0, MaxGen, CRLF), Rec("n", 1, 0, CRLF)>>
ParserRecs == <<Rec("f", 0, MaxGen, CRLF), Rec("n", 1, 0, CRLF), Rec("n", 2, 0, CRLF)>>

ClassicRecs ==
    CASE corpus = "xref" -> {Rec("n", 1, 0, CRLF), Rec("f", 0, 1, SPLF),
                             Rec("x", 1, 0, CRLF), Rec("n", 2, 1, LFLF)}
      [] corpus = "load" -> {Rec("n", 1, 0, CRLF), Rec("n", 0, 0, CRLF), Rec("n", 1, 1, SPLF),
                             Rec("f", 0, 0, CRLF), Rec("f", 0, MaxGen, CRLF)}
      [] corpus = "repo" -> {Rec("n", 1, 0, CRLF), Rec("n", 1, MaxGen, CRLF),
                             Rec("f", 0, 0, CRLF)}
      [] OTHER -> Range(ChainRecs)

\* The corpus "deep" holds the files with a chain of revisions as long as
\* the recursion guard allows and longer: a revision takes two levels, and
\* the revision at offset o names the one at o + 1 as its /Prev.
Deep == corpus = "deep"
DeepRevisions == MaxRecursionDepth \div 2
FileSize == IF Deep THEN DeepRevisions + 1 ELSE NOff

\* ------------------------------------------------------ the input: sections
\* What starts at an offset: a classic table ("table"), a cross-reference
\* stream object ("stream") or something else ("garbage", whose parse as an
\* object raises err).  xrefstm and prev are 0 when the key is absent.
Sec(k, t, ks, x, p, e) ==
    [kind |-> k, hasTrailer |-> t, keys |-> ks, xrefstm |-> x, prev |-> p, err |-> e]
NoSec == Sec("none", FALSE, {}, 0, 0, NoErr)

KeySets ==
    CASE corpus = "trailer" -> {{}, {"Size", "Root", "ID"}, {"Root", "Encrypt", "Info"}, TrailerKeys}
      [] corpus = "xref" -> {{"Size", "Root"}}
      [] corpus \in {"load", "repo"} -> {{"Size", "Root"}}
      [] corpus = "parser" -> {{"Size", "Root"}, {"Size", "Root", "Encrypt"}}
      [] OTHER -> {TrailerKeys}

\* the /Prev values a section at offset o may hold
PrevChoices(o) ==
    CASE corpus = "chain" -> 0..Beyond
      [] corpus \in {"load", "repo", "parser"} -> {0}
      [] Deep -> IF o < DeepRevisions THEN {o + 1} ELSE {0, o + 1}
      [] OTHER -> {0} \cup {p \in Offsets : p > o}

\* the /XRefStm values the trailer of the section at offset o may hold
XRefStmChoices(o) ==
    CASE corpus = "chain" -> 0..NOff
      [] corpus = "trailer" -> {0} \cup {x \in Offsets : x > o}
      [] Deep -> IF o < DeepRevisions THEN {0} ELSE {0, o + 1}
      [] OTHER -> {0}

\* the corpora whose sections can be read twice keep them in `file`
Stored == corpus \in {"chain", "trailer", "parser"}

GarbageErrs == {"NoNumber", "NoObject"}

SectionSet(o) ==
    IF Deep
    THEN {Sec("table", TRUE, ks, x, p, NoErr) :
             ks \in KeySets, x \in XRefStmChoices(o), p \in PrevChoices(o)}
    ELSE
    {Sec("table", FALSE, {}, 0, 0, NoErr)}
    \cup {Sec("table", TRUE, ks, x, p, NoErr) :
             ks \in KeySets, x \in XRefStmChoices(o), p \in PrevChoices(o)}
    \cup {Sec("stream", FALSE, ks, 0, p, NoErr) : ks \in KeySets, p \in PrevChoices(o)}
    \cup {Sec("garbage", FALSE, {}, 0, 0, e) : e \in GarbageErrs}

\* The section the parser finds at offset o: the stored one when o was read
\* before, any section otherwise.
SectionChoices(o) ==
    IF Stored /\ file[o] # NoSec THEN {file[o]} ELSE SectionSet(o)

Remember(o, s) == IF Stored THEN [file EXCEPT ![o] = s] ELSE file

\* An offset beyond the end of the file makes ReadXRefContents search the
\* "xref" keyword before the last startxref: the place found (0: none) is a
\* property of the file, stored as the prev field of file[Beyond].
RecoverChoices ==
    IF file[Beyond] # NoSec THEN {file[Beyond].prev} ELSE 0..NOff

\* ------------------------------------------------- the cross-reference table
UnparsedEntry == [Parsed |-> FALSE, Type |-> "Unknown", Variant |-> 0, Generation |-> 0]

\* PdfXRefEntries::Enlarge: the table only grows
Enlarge(entries, newSize) ==
    IF newSize > Len(entries)
    THEN entries \o [i \in 1..(newSize - Len(entries)) |-> UnparsedEntry]
    ELSE entries

CheckEOL(e1, e2) ==
    \/ (e1 = "CR" /\ e2 = "LF")
    \/ (e1 = "LF" /\ e2 = "CR")
    \/ (e1 = "SP" /\ (e2 = "CR" \/ e2 = "LF"))

\* AnyEntryType accepts every type character: the variant C10 is shown to exclude
AnyEntryType(c) == TRUE
CheckXRefEntryType(c) == c = "n" \/ c = "f"

XRefEntryTypeFromChar(c) == IF c = "n" THEN "InUse" ELSE "Free"

\* The test that guards the decoding of a record: its slot is in the table
\* and holds no record yet.  AnySlot is the test without the parsed flag,
\* the variant C9 is shown to exclude.
AnySlot(entries, objIndex) == objIndex < Len(entries)
NotYetParsed(entries, objIndex) ==
    objIndex < Len(entries) /\ ~entries[objIndex + 1].Parsed

\* The record loop of ReadXRefSubsection.  index counts the records read;
\* the result holds the table, the error raised (NoErr: none) and the number
\* of records consumed from the device.
RECURSIVE ReadXRefRecords(_, _, _, _, _)
ReadXRefRecords(entries, firstObject, recs, index, magic) ==
    IF index >= Len(recs)
    THEN [entries |-> entries, err |-> NoErr, read |-> index]
    ELSE LET rec == recs[index + 1]
             objIndex == firstObject + index
         IN  IF NotYetParsed(entries, objIndex)
             THEN IF ~CheckXRefEntryType(rec.type)
                  THEN [entries |-> entries, err |-> "InvalidXRef", read |-> index + 1]
                  ELSE IF ~CheckEOL(rec.eol[1], rec.eol[2])
                  THEN [entries |-> entries, err |-> "InvalidXRef", read |-> index + 1]
                  ELSE LET type == XRefEntryTypeFromChar(rec.type)
                           variant == IF type = "InUse" THEN rec.variant + magic
                                      ELSE rec.variant
                           parsed == [Parsed |-> TRUE, Type |-> type,
                                      Variant |-> variant, Generation |-> rec.gen]
                       IN  ReadXRefRecords([entries EXCEPT ![objIndex + 1] = parsed],
                                           firstObject, recs, index + 1, magic)
             ELSE ReadXRefRecords(entries, firstObject, recs, index + 1, magic)

ReadXRefSubsection(entries, firstObject, recs, magic) ==
    ReadXRefRecords(Enlarge(entries, firstObject + Len(recs)), firstObject, recs, 0, magic)

\* PdfXRefStreamParserObject::ReadXRefTable: the records decoded from a
\* cross-reference stream fill the slots that are not parsed yet.
RECURSIVE ReadXRefTableRecords(_, _, _, _)
ReadXRefTableRecords(entries, firstObject, recs, index) ==
    IF index >= Len(recs)
    THEN entries
    ELSE LET rec == recs[index + 1]
             objIndex == firstObject + index
             type == CASE rec.type = "n" -> "InUse"
                       [] rec.type = "f" -> "Free"
                       [] OTHER -> "Compressed"
             parsed == [Parsed |-> TRUE, Type |-> type,
                        Variant |-> rec.variant, Generation |-> rec.gen]
         IN  ReadXRefTableRecords(
                 IF entries[objIndex + 1].Parsed THEN entries
                 ELSE [entries EXCEPT ![objIndex + 1] = parsed],
                 firstObject, recs, index + 1)

ReadXRefTable(entries, firstObject, recs) ==
    ReadXRefTableRecords(Enlarge(entries, firstObject + Len(recs)), firstObject, recs, 0)

\* ------------------------------------------------------------- the trailer
\* The merged trailer records, for each of the five keys, the offset of the
\* section whose trailer supplied the value (0: the key is absent).
NullTrailer == [isNull |-> TRUE, src |-> [k \in TrailerKeys |-> 0]]

TrailerOf(sec, offset) == [k \in TrailerKeys |-> IF k \in sec.keys THEN offset ELSE 0]

\* LastTrailerWins lets a later trailer replace a key: the variant C8 is shown to exclude
LastTrailerWins(merged, trailer, k) ==
    IF trailer[k] # 0 THEN trailer[k] ELSE merged[k]
MergeKey(merged, trailer, k) ==
    IF trailer[k] # 0 /\ merged[k] = 0 THEN trailer[k] ELSE merged[k]

MergeTrailer(merged, trailer) ==
    [Size    |-> MergeKey(merged, trailer, "Size"),
     Root    |-> MergeKey(merged, trailer, "Root"),
     Encrypt |-> MergeKey(merged, trailer, "Encrypt"),
     Info    |-> MergeKey(merged, trailer, "Info"),
     ID      |-> MergeKey(merged, trailer, "ID")]

\* what ReadNextTrailer and ReadXRefStreamContents do with a trailer read
SetOrMergeTrailer(mt, trailer) ==
    IF mt.isNull THEN [isNull |-> FALSE, src |-> trailer]
    ELSE [isNull |-> FALSE, src |-> MergeTrailer(mt.src, trailer)]

FirstDefAfter(fd, sec, offset) ==
    [k \in TrailerKeys |-> IF fd[k] = 0 /\ k \in sec.keys THEN offset ELSE fd[k]]

\* ------------------------------------------------------- frames and errors
Frame(p, o, st, s, tk) ==
    [proc |-> p, offset |-> o, stage |-> st, sec |-> s, sub |-> 0, tok |-> tk]

NoCycle == [caller |-> "none", callerOffset |-> 0, offset |-> 0]
NoRepeat == [by |-> "none", own |-> 0, prev |-> 0]
NoRead == [offset |-> 0, sub |-> 0, first |-> 0, recs |-> <<>>, before |-> <<>>,
           err |-> NoErr, valid |-> FALSE]

\* the frame that called the top frame
CallerProc == IF Len(stack) > 1 THEN stack[Len(stack) - 1].proc ELSE "Parse"
CallerOffset == IF Len(stack) > 1 THEN stack[Len(stack) - 1].offset ELSE 0

\* The top frame leaves by an exception.  depth is the value the recursion
\* counter is left with: the guard's destructor runs only when its
\* constructor has completed.
Raise(e, depth) ==
    /\ stack' = Pop(stack)
    /\ exc' = e
    /\ m_RecursionDepth' = depth

\* the top frame returns: its guard is destroyed
Return ==
    /\ stack' = Pop(stack)
    /\ exc' = NoErr
    /\ m_RecursionDepth' = m_RecursionDepth - 1

\* history of ReadCompressedObjectFromStream: how often container objNo was
\* asked for, how often PdfObjectStreamParser parsed it, and whether the
\* first request found it
NoStreamHist == [objNo \in 0..MaxObj |-> [asked |-> 0, parsed |-> 0, found |-> FALSE]]
Asked(h, objNo, parses, found) ==
    [h EXCEPT ![objNo] = [asked |-> Min(@.asked + 1, 2),
                          parsed |-> @.parsed + (IF parses THEN 1 ELSE 0),
                          found |-> @.found \/ found]]

\* PdfParser::Reset, but for the two fields it leaves alone
\* (m_StrictParsing, m_visitedXRefOffsets)
Reset ==
    /\ m_LoadOnDemand' = FALSE
    /\ m_magicOffset' = 0
    /\ oldVersion' = FALSE
    /\ m_HasXRefStream' = FALSE
    /\ m_XRefOffset' = 0
    /\ m_Trailer' = NullTrailer
    /\ m_entries' = <<>>
    /\ m_ObjectStreams' = {}
    /\ m_Encrypt' = FALSE
    /\ m_IgnoreBrokenObjects' = TRUE
    /\ m_RecursionDepth' = 0

\* ----------------------------------------------------------- inputs of Parse
StrictChoices == IF corpus = "load" THEN BOOLEAN ELSE {FALSE}
DemandChoices == IF corpus \in {"chain", "load", "repo", "parser"} THEN BOOLEAN ELSE {FALSE}
MagicChoices == IF corpus \in {"chain", "load"} THEN {0, 1} ELSE {0}
OldVersionChoices == IF corpus = "chain" THEN BOOLEAN ELSE {FALSE}
StartChoices == IF corpus = "chain" THEN 1..Beyond ELSE {1}
\* IsPdfFile, CheckEOFMarker and FindXRef succeed ("ok") or raise
HeadChoices == {"ok", "NoPdfFile", "NoEOFToken", "NoXRef"}

EmptyFile == [o \in 1..Beyond |-> NoSec]

\* the record of one repository operation: the reference it was given and
\* the one it returned, and the repository it found
Op(o, ref, mark, result, objs) ==
    [op |-> o, ref |-> ref, mark |-> mark, result |-> result,
     reuse |-> m_CanReuseObjectNumbers, freeBefore |-> m_FreeObjects, before |-> objs]
NoOp == [op |-> "none", ref |-> <<0, 0>>, mark |-> FALSE, result |-> <<0, 0>>,
         reuse |-> FALSE, freeBefore |-> <<>>, before |-> {}]
NoOps == <<NoOp, NoOp>>

\* PdfDocument::Clear, as far as the repository goes
ClearRepository ==
    /\ m_Objects' = {}
    /\ m_FreeObjects' = <<>>
    /\ m_ObjectCount' = 1
    /\ m_UnavailableObjects' = {}
    /\ UNCHANGED m_CanReuseObjectNumbers

\* the corpus in which one PdfParser is used directly, on one device: Parse
\* can be called again on it
SameParser == corpus = "parser"

\* the value of the Encrypt entry before ReadObjects has looked at it
Unread == [kind |-> "unread", num |-> 0, broken |-> FALSE]

\* PdfEncrypt::Authenticate: the file's user password is "pw"
Authenticate(password) == password = "pw"

\* PdfMemDocument::LoadFromDevice up to the first call of ReadXRefContents:
\* Clear, a new PdfParser, Parse -> Reset, IsPdfFile, ReadDocumentStructure
\* -> CheckEOFMarker, FindXRef.  With SameParser it is PdfParser::Parse
\* alone: the repository, the device and the fields Reset leaves alone are
\* the ones of the call before.
BeginParse(strict, demand, head, magic, old, start) ==
    /\ nLoads' = nLoads + 1
    /\ IF SameParser THEN UNCHANGED repoVars ELSE ClearRepository
    /\ docTrailer' = {}
    /\ file' = IF SameParser THEN file ELSE EmptyFile
    /\ m_StrictParsing' = strict
    /\ m_visitedXRefOffsets' = IF SameParser THEN m_visitedXRefOffsets ELSE {}
    /\ m_Encrypt' = FALSE
    /\ m_password' = m_password
    /\ streamHist' = NoStreamHist
    /\ UNCHANGED sideRest
    /\ encrypt' = IF SameParser THEN encrypt ELSE Unread
    /\ retry' = (SameParser /\ pc = "failed" /\ lastError = "InvalidPassword"
                  /\ Authenticate(m_password))
    /\ firstDef' = [k \in TrailerKeys |-> 0]
    /\ cycleErr' = NoCycle
    /\ repeated' = NoRepeat
    /\ lastRead' = NoRead
    /\ lastOp' = NoOps
    /\ loopI' = 0
    /\ exc' = NoErr
    /\ m_Trailer' = NullTrailer
    /\ m_entries' = <<>>
    /\ m_ObjectStreams' = {}
    /\ m_IgnoreBrokenObjects' = TRUE
    /\ m_RecursionDepth' = 0
    /\ m_HasXRefStream' = FALSE
    /\ IF head = "ok"
       THEN /\ m_LoadOnDemand' = demand
            /\ m_magicOffset' = magic
            /\ oldVersion' = old
            /\ m_XRefOffset' = start
            /\ stack' = <<Frame("ReadXRefContents", start, "enter", NoSec, FALSE)>>
            /\ pc' = "xref"
            /\ lastError' = NoErr
       ELSE /\ m_LoadOnDemand' = FALSE
            /\ m_magicOffset' = 0
            /\ oldVersion' = FALSE
            /\ m_XRefOffset' = 0
            /\ stack' = <<>>
            /\ pc' = "failed"
            /\ lastError' = head
    /\ UNCHANGED <<corpus, nOps>>

\* a second load into the same document is drawn in the corpora made for
\* the repository
Parse ==
    /\ \/ pc = "idle"
       \/ corpus \in {"load", "repo"} /\ pc \in {"failed", "loaded"} /\ nLoads < MaxLoads
       \/ SameParser /\ pc = "failed" /\ nLoads < MaxLoads
    /\ \E strict \in StrictChoices, demand \in DemandChoices, head \in HeadChoices,
          magic \in MagicChoices, old \in OldVersionChoices, start \in StartChoices :
          /\ head # "ok" => (strict = FALSE /\ demand = FALSE /\ magic = 0 /\ old = FALSE /\ start = 1)
          \* the same device gives the same header, marker and startxref
          /\ (SameParser /\ pc = "failed")
                => head = (IF lastError \in HeadChoices THEN lastError ELSE "ok")
          /\ BeginParse(strict, demand, head, magic, old, start)

\* ------------------------------------------------------- ReadXRefContents
\* From its entry to the first call it makes or the start of the subsection
\* loop.
ReadXRefContents ==
    /\ pc = "xref" /\ exc = NoErr /\ stack # <<>>
    /\ Top.proc = "ReadXRefContents" /\ Top.stage = "enter"
    /\ LET f == Top
           offset == f.offset
       IN
       IF m_RecursionDepth + 1 > MaxRecursionDepth
       THEN /\ Raise("InvalidXRef", m_RecursionDepth + 1)
            /\ UNCHANGED <<m_visitedXRefOffsets, file, m_HasXRefStream, m_XRefOffset, cycleErr>>
       ELSE IF offset \in m_visitedXRefOffsets
       THEN /\ Raise("InvalidXRef", m_RecursionDepth)
            /\ cycleErr' = [caller |-> CallerProc, callerOffset |-> CallerOffset,
                            offset |-> offset]
            /\ UNCHANGED <<m_visitedXRefOffsets, file, m_HasXRefStream, m_XRefOffset>>
       ELSE
            /\ m_visitedXRefOffsets' = m_visitedXRefOffsets \cup {offset}
            /\ UNCHANGED cycleErr
            /\ \E eff \in (IF offset > FileSize THEN RecoverChoices ELSE {offset}) :
                 IF eff = 0
                 THEN /\ Raise("NoXRef", m_RecursionDepth)
                      /\ file' = Remember(Beyond, Sec("beyond", FALSE, {}, 0, 0, NoErr))
                      /\ UNCHANGED <<m_HasXRefStream, m_XRefOffset>>
                 ELSE \E s \in SectionChoices(eff) :
                      /\ file' = IF ~Stored THEN file
                                 ELSE IF offset > FileSize
                                 THEN [file EXCEPT ![Beyond] = Sec("beyond", FALSE, {}, 0, eff, NoErr),
                                                   ![eff] = s]
                                 ELSE [file EXCEPT ![eff] = s]
                      /\ m_XRefOffset' = IF offset > FileSize THEN eff ELSE m_XRefOffset
                      /\ IF s.kind = "table"
                         THEN /\ stack' = SetTop(stack, [f EXCEPT !.offset = eff,
                                                   !.stage = "subsections", !.sec = s])
                              /\ m_RecursionDepth' = m_RecursionDepth + 1
                              /\ UNCHANGED <<exc, m_HasXRefStream>>
                         ELSE IF oldVersion
                         THEN /\ Raise("NoXRef", m_RecursionDepth)
                              /\ UNCHANGED m_HasXRefStream
                         ELSE /\ m_HasXRefStream' = TRUE
                              /\ stack' = SetTop(stack, [f EXCEPT !.offset = eff,
                                                   !.stage = "inStream"])
                                          \o <<Frame("ReadXRefStreamContents", eff, "enter", s, FALSE)>>
                              /\ m_RecursionDepth' = m_RecursionDepth + 1
                              /\ UNCHANGED exc
    /\ UNCHANGED <<corpus, m_StrictParsing, m_LoadOnDemand, m_IgnoreBrokenObjects,
                   m_magicOffset, oldVersion, m_Trailer, m_entries, m_ObjectStreams,
                   pc, loopI, lastError, firstDef, repeated, lastRead, repoVars,
                   docTrailer, nOps, nLoads, lastOp>>
    /\ UNCHANGED <<encVars, sideVars>>

\* what the subsection loop may find next in the file
SeqsUpTo(S, n) == UNION {[1..k -> S] : k \in 1..n}

LoopItems(f) ==
    IF Stored \/ Deep
    THEN IF f.sub = 0
         THEN {[kind |-> "sub", first |-> 0,
                recs |-> IF corpus = "parser" THEN ParserRecs ELSE ChainRecs]}
         ELSE {[kind |-> IF f.sec.hasTrailer THEN "trailer" ELSE "garbage",
                first |-> 0, recs |-> <<>>]}
    ELSE IF corpus \in {"load", "repo"}
    THEN IF f.sub = 0
         THEN {[kind |-> "sub", first |-> 0, recs |-> recs] :
                  recs \in SeqsUpTo(ClassicRecs, MaxObj)}
         ELSE {[kind |-> IF f.sec.hasTrailer THEN "trailer" ELSE "garbage",
                first |-> 0, recs |-> <<>>]}
    ELSE {[kind |-> IF f.sec.hasTrailer THEN "trailer" ELSE "garbage",
           first |-> 0, recs |-> <<>>]}
         \cup (IF f.sub < MaxSubs
               THEN UNION {{[kind |-> "sub", first |-> first, recs |-> recs] :
                              recs \in SeqsUpTo(ClassicRecs, Min(MaxRecs, MaxObj - first))} :
                           first \in 0..(MaxObj - 1)}
               ELSE {})

CaughtInLoop(e) == e \in {"NoNumber", "InvalidXRef", "UnexpectedEOF"}

\* One turn of the subsection loop of ReadXRefContents; when the loop ends,
\* the call of ReadNextTrailer.
ReadXRefSubsections ==
    /\ pc = "xref" /\ exc = NoErr /\ stack # <<>>
    /\ Top.proc = "ReadXRefContents" /\ Top.stage = "subsections"
    /\ LET f == Top
           CallTrailer(tok) ==
               stack' = SetTop(stack, [f EXCEPT !.stage = "inTrailer", !.sec = NoSec])
                        \o <<Frame("ReadNextTrailer", f.offset, "enter", f.sec, tok)>>
       IN
       IF f.sub = MAX_XREF_SESSION_COUNT
       THEN /\ Raise("NoEOFToken", m_RecursionDepth - 1)
            /\ UNCHANGED <<m_entries, lastRead>>
       ELSE \E item \in LoopItems(f) :
            IF item.kind = "trailer"
            THEN /\ CallTrailer(TRUE)
                 /\ UNCHANGED <<exc, m_RecursionDepth, m_entries, lastRead>>
            ELSE IF item.kind = "garbage"
            THEN /\ CallTrailer(FALSE)
                 /\ UNCHANGED <<exc, m_RecursionDepth, m_entries, lastRead>>
            ELSE LET r == ReadXRefSubsection(m_entries, item.first, item.recs, m_magicOffset)
                 IN  /\ m_entries' = r.entries
                     /\ lastRead' = [offset |-> f.offset, sub |-> f.sub,
                                     first |-> item.first, recs |-> item.recs,
                                     before |-> Enlarge(m_entries, item.first + Len(item.recs)),
                                     err |-> r.err, valid |-> TRUE]
                     /\ IF r.err = NoErr
                        THEN /\ stack' = SetTop(stack, [f EXCEPT !.sub = f.sub + 1])
                             /\ UNCHANGED <<exc, m_RecursionDepth>>
                        ELSE IF CaughtInLoop(r.err)
                        THEN /\ \E tok \in (IF r.read = Len(item.recs) /\ f.sec.hasTrailer
                                            THEN BOOLEAN ELSE {FALSE}) : CallTrailer(tok)
                             /\ UNCHANGED <<exc, m_RecursionDepth>>
                        ELSE Raise(r.err, m_RecursionDepth - 1)
    /\ UNCHANGED <<corpus, file, m_StrictParsing, m_LoadOnDemand, m_IgnoreBrokenObjects,
                   m_magicOffset, oldVersion, m_HasXRefStream, m_XRefOffset, m_Trailer,
                   m_ObjectStreams, m_visitedXRefOffsets,
                   pc, loopI, lastError, firstDef, cycleErr, repeated, repoVars,
                   docTrailer, nOps, nLoads, lastOp>>
    /\ UNCHANGED <<encVars, sideVars>>

\* -------------------------------------------------------- ReadNextTrailer
\* The test ReadNextTrailer makes before it follows /Prev.  NeverVisited is
\* the variant without the test, which C1 is shown to exclude.
NeverVisited(offset) == FALSE
PrevAlreadyVisited(offset) == offset \in m_visitedXRefOffsets

\* The /Prev step of ReadNextTrailer, f being its frame and depth the value
\* of the recursion counter while f is active.
FollowPrev(f, depth) ==
    /\ repeated' = IF f.sec.prev # 0 /\ f.sec.prev \in m_visitedXRefOffsets
                   THEN [by |-> "ReadNextTrailer", own |-> f.offset, prev |-> f.sec.prev]
                   ELSE repeated
    /\ IF f.sec.prev # 0 /\ ~PrevAlreadyVisited(f.sec.prev)
       THEN /\ stack' = SetTop(stack, [f EXCEPT !.stage = "inPrev", !.sec = NoSec])
                        \o <<Frame("ReadXRefContents", f.sec.prev, "enter", NoSec, FALSE)>>
            /\ m_RecursionDepth' = depth
            /\ exc' = NoErr
       ELSE /\ stack' = Pop(stack)
            /\ m_RecursionDepth' = depth - 1
            /\ exc' = NoErr

\* From the entry of ReadNextTrailer to the first call it makes, or to its end.
ReadNextTrailer ==
    /\ pc = "xref" /\ exc = NoErr /\ stack # <<>>
    /\ Top.proc = "ReadNextTrailer" /\ Top.stage = "enter"
    /\ LET f == Top
       IN
       IF m_RecursionDepth + 1 > MaxRecursionDepth
       THEN /\ Raise("InvalidXRef", m_RecursionDepth + 1)
            /\ UNCHANGED <<m_Trailer, firstDef, repeated>>
       ELSE IF ~f.tok
       THEN /\ Raise("NoTrailer", m_RecursionDepth)
            /\ UNCHANGED <<m_Trailer, firstDef, repeated>>
       ELSE /\ m_Trailer' = SetOrMergeTrailer(m_Trailer, TrailerOf(f.sec, f.offset))
            /\ firstDef' = FirstDefAfter(firstDef, f.sec, f.offset)
            /\ IF f.sec.xrefstm # 0
               THEN /\ stack' = SetTop(stack, [f EXCEPT !.stage = "inXRefStm"])
                                \o <<Frame("ReadXRefStreamContents", f.sec.xrefstm, "enter", NoSec, FALSE)>>
                    /\ m_RecursionDepth' = m_RecursionDepth + 1
                    /\ UNCHANGED <<exc, repeated>>
               ELSE FollowPrev(f, m_RecursionDepth + 1)
    /\ UNCHANGED <<corpus, file, m_StrictParsing, m_LoadOnDemand, m_IgnoreBrokenObjects,
                   m_magicOffset, oldVersion, m_HasXRefStream, m_XRefOffset, m_entries,
                   m_ObjectStreams, m_visitedXRefOffsets,
                   pc, loopI, lastError, cycleErr, lastRead, repoVars, docTrailer,
                   nOps, nLoads, lastOp>>
    /\ UNCHANGED <<encVars, sideVars>>

\* ------------------------------------------------ ReadXRefStreamContents
ChainStreamRecs == <<Rec("n", 2, 0, CRLF), Rec("c", 1, 0, CRLF)>>
ParserStreamRecs == <<Rec("f", 0, MaxGen, CRLF), Rec("n", 1, 0, CRLF), Rec("c", 1, 0, CRLF)>>

StreamRecs ==
    CASE corpus = "xref" -> {Rec("n", 2, 0, CRLF), Rec("c", 1, 0, CRLF)}
      [] OTHER -> Range(ChainStreamRecs)

\* the records a cross-reference stream may hold
StreamItems ==
    IF corpus = "parser"
    THEN {[first |-> 0, recs |-> ParserStreamRecs]}
    ELSE IF Stored
    THEN {[first |-> 1, recs |-> ChainStreamRecs]}
    ELSE IF corpus \in {"load", "repo"}
    THEN {[first |-> 1, recs |-> <<Rec("n", 1, 0, CRLF), Rec("c", 1, 0, CRLF)>>],
          [first |-> 2, recs |-> <<Rec("c", 1, 0, CRLF)>>],
          [first |-> 0, recs |-> <<Rec("c", 1, 0, CRLF), Rec("n", 1, 0, CRLF),
                                   Rec("c", 1, 0, CRLF)>>]}
    ELSE UNION {{[first |-> first, recs |-> recs] :
                   recs \in SeqsUpTo(StreamRecs, Min(MaxRecs, MaxObj - first))} :
                first \in 0..(MaxObj - 1)}

\* From the entry of ReadXRefStreamContents to the call it makes, or to its end.
ReadXRefStreamContents ==
    /\ pc = "xref" /\ exc = NoErr /\ stack # <<>>
    /\ Top.proc = "ReadXRefStreamContents" /\ Top.stage = "enter"
    /\ LET f == Top
       IN
       IF m_RecursionDepth + 1 > MaxRecursionDepth
       THEN /\ Raise("InvalidXRef", m_RecursionDepth + 1)
            /\ UNCHANGED <<m_Trailer, firstDef, repeated, m_entries, file>>
       ELSE \E s \in (IF f.sec # NoSec THEN {f.sec} ELSE SectionChoices(f.offset)) :
            /\ file' = Remember(f.offset, s)
            /\ IF s.kind # "stream"
               THEN /\ Raise(IF s.kind = "table" THEN "NoNumber" ELSE s.err, m_RecursionDepth)
                    /\ UNCHANGED <<m_Trailer, firstDef, repeated, m_entries>>
               ELSE /\ m_Trailer' = SetOrMergeTrailer(m_Trailer, TrailerOf(s, f.offset))
                    /\ firstDef' = FirstDefAfter(firstDef, s, f.offset)
                    /\ \E item \in StreamItems :
                          m_entries' = ReadXRefTable(m_entries, item.first, item.recs)
                    /\ repeated' = IF s.prev # 0 /\ s.prev \in m_visitedXRefOffsets
                                   THEN [by |-> "ReadXRefStreamContents", own |-> f.offset,
                                         prev |-> s.prev]
                                   ELSE repeated
                    /\ IF s.prev # 0 /\ s.prev # f.offset
                       THEN /\ stack' = SetTop(stack, [f EXCEPT !.stage = "inPrev", !.sec = NoSec])
                                        \o <<Frame("ReadXRefContents", s.prev, "enter", NoSec, FALSE)>>
                            /\ m_RecursionDepth' = m_RecursionDepth + 1
                            /\ UNCHANGED exc
                       ELSE /\ stack' = Pop(stack)
                            /\ UNCHANGED <<exc, m_RecursionDepth>>
    /\ UNCHANGED <<corpus, m_StrictParsing, m_LoadOnDemand, m_IgnoreBrokenObjects,
                   m_magicOffset, oldVersion, m_HasXRefStream, m_XRefOffset,
                   m_ObjectStreams, m_visitedXRefOffsets,
                   pc, loopI, lastError, cycleErr, lastRead, repoVars, docTrailer,
                   nOps, nLoads, lastOp>>
    /\ UNCHANGED <<encVars, sideVars>>

\* --------------------------------------------------- returns and handlers
Waiting(f) == f.stage \in {"inStream", "inTrailer", "inXRefStm", "inPrev"}

\* The call the top frame was waiting for has returned.
ReturnToCaller ==
    /\ pc = "xref" /\ exc = NoErr /\ stack # <<>>
    /\ Waiting(Top)
    /\ IF Top.proc = "ReadNextTrailer" /\ Top.stage = "inXRefStm"
       THEN FollowPrev(Top, m_RecursionDepth)
       ELSE Return /\ UNCHANGED repeated
    /\ UNCHANGED <<corpus, file, m_StrictParsing, m_LoadOnDemand, m_IgnoreBrokenObjects,
                   m_magicOffset, oldVersion, m_HasXRefStream, m_XRefOffset, m_Trailer,
                   m_entries, m_ObjectStreams, m_visitedXRefOffsets,
                   pc, loopI, lastError, firstDef, cycleErr, lastRead, repoVars,
                   docTrailer, nOps, nLoads, lastOp>>
    /\ UNCHANGED <<encVars, sideVars>>

\* the catch blocks: which error a waiting frame swallows
Swallows(f, e) ==
    \/ (f.proc = "ReadXRefContents" /\ f.stage = "inTrailer" /\ e = "NoTrailer")
    \/ (f.proc = "ReadXRefStreamContents" /\ f.stage = "inPrev" /\ e = "NoNumber")

\* The call the top frame was waiting for has raised.
HandleError ==
    /\ pc = "xref" /\ exc # NoErr /\ stack # <<>>
    /\ IF Swallows(Top, exc)
       THEN Return
       ELSE Raise(exc, m_RecursionDepth - 1)
    /\ UNCHANGED <<corpus, file, m_StrictParsing, m_LoadOnDemand, m_IgnoreBrokenObjects,
                   m_magicOffset, oldVersion, m_HasXRefStream, m_XRefOffset, m_Trailer,
                   m_entries, m_ObjectStreams, m_visitedXRefOffsets,
                   pc, loopI, lastError, histVars, repoVars, docTrailer,
                   nOps, nLoads, lastOp>>
    /\ UNCHANGED <<encVars, sideVars>>

Parsing == pc \in {"xref", "objects1", "objects2", "streams", "version"}

\* the catch block of PdfParser::Parse
ParseCatch ==
    /\ Parsing /\ exc # NoErr /\ stack = <<>>
    /\ pc' = "failed"
    /\ lastError' = exc
    /\ exc' = NoErr
    /\ loopI' = 0
    /\ IF exc = "InvalidPassword"
       THEN UNCHANGED <<m_LoadOnDemand, m_magicOffset, oldVersion, m_HasXRefStream,
                        m_XRefOffset, m_Trailer, m_entries, m_ObjectStreams,
                        m_IgnoreBrokenObjects, m_RecursionDepth, m_Encrypt>>
       ELSE Reset
    /\ UNCHANGED <<corpus, file, m_StrictParsing, m_visitedXRefOffsets, stack,
                   histVars, repoVars, docTrailer, nOps, nLoads, lastOp>>
    /\ UNCHANGED <<m_password, encrypt, retry, sideVars>>

\* ------------------------------------------------------- the repository
\* An object of the repository: its reference <<number, generation>>,
\* whether it is a PdfParserObject ("parser") or a plain PdfObject
\* ("plain"), whether the bytes it is loaded from are malformed, and the
\* references its value holds.
Obj(ref, kind, broken, refs) == [ref |-> ref, kind |-> kind, broken |-> broken, refs |-> refs]

IsIndirect(ref) == ref[1] # 0 \/ ref[2] # 0

RefLess(a, b) == IF a[1] = b[1] THEN a[2] < b[2] ELSE a[1] < b[1]

LiveRefs(objs) == {o.ref : o \in objs}

\* PdfIndirectObjectList::GetObject
GetObject(objs, ref) == {o \in objs : o.ref = ref}

\* m_Objects is a std::set ordered by reference: one object per reference
PushObject(objs, obj) == {o \in objs : o.ref # obj.ref} \cup {obj}

TryIncrementObjectCount(count, ref) == IF ref[1] >= count THEN ref[1] + 1 ELSE count

\* PrependFreeObject puts the entry in front of the older ones: the variant
\* C6 is shown to exclude
PrependFreeObject(free, ref) == <<ref>> \o free
AddFreeObject(free, ref) == Append(free, ref)

\* the repository after tryAddFreeObject(objnum, gennum): a free-list entry,
\* or the number is retired when the generation is out of range
TryAddFree(free, unavailable, count, objnum, gennum) ==
    IF gennum > MaxGen
    THEN [free |-> free, unavailable |-> unavailable \cup {objnum}, count |-> count]
    ELSE [free |-> AddFreeObject(free, <<objnum, gennum>>), unavailable |-> unavailable,
          count |-> TryIncrementObjectCount(count, <<objnum, gennum>>)]

SafeAddFree(free, unavailable, count, ref) ==
    TryAddFree(free, unavailable, count, ref[1], ref[2] + 1)

\* the smallest number from count on that is not retired
RECURSIVE NextUnused(_, _)
NextUnused(count, unavailable) ==
    IF count \in unavailable THEN NextUnused(count + 1, unavailable) ELSE count

\* KeepFreeEntry hands out the oldest free entry and leaves it on the list:
\* the variant C4 is shown to exclude
KeepFreeEntry(free, reuse, count, unavailable) ==
    IF reuse /\ free # <<>>
    THEN [ref |-> Head(free), free |-> free]
    ELSE [ref |-> <<NextUnused(count, unavailable), 0>>, free |-> free]
\* getNextFreeObject: the reference handed out and the free list left
GetNextFreeObject(free, reuse, count, unavailable) ==
    IF reuse /\ free # <<>>
    THEN [ref |-> Head(free), free |-> Tail(free)]
    ELSE [ref |-> <<NextUnused(count, unavailable), 0>>, free |-> free]

\* ---------------------------------------------------- ReadObjects (load)
BrokenChoices == IF corpus \in {"load", "parser"} THEN BOOLEAN ELSE {FALSE}
\* the references the value of object n may hold: none, or one to the next
\* object number (the last number points back at 1)
ContentChoices(n) ==
    IF corpus = "repo"
    THEN {{}, {<<(IF n + 1 < MaxObj THEN n + 1 ELSE 1), 0>>}}
    ELSE {{}}

\* the value the trailer's Encrypt entry may have: null, a reference to
\* object num (whose bytes may be malformed), a dictionary, or something else
EncryptValue(k, n, b) == [kind |-> k, num |-> n, broken |-> b]
EncryptChoices ==
    IF corpus = "parser"
    THEN {EncryptValue("null", 0, FALSE), EncryptValue("dict", 0, FALSE),
          EncryptValue("other", 0, FALSE)}
         \cup {EncryptValue("ref", n, FALSE) : n \in 0..MaxObj}
         \cup {EncryptValue("ref", n, TRUE) : n \in 1..(MaxObj - 1)}
    ELSE {EncryptValue("null", 0, FALSE)}

\* KeepEntry leaves the entry of the encryption dictionary in the table: the
\* variant C13 is shown to exclude
KeepEntry(entries, i) == entries
\* m_entries[i].Parsed = false: the loops of ReadObjectsInternal skip entry i
ExcludeEntry(entries, i) == [entries EXCEPT ![i + 1].Parsed = FALSE]

loadRest == <<corpus, file, m_StrictParsing, m_LoadOnDemand, m_IgnoreBrokenObjects,
              m_magicOffset, oldVersion, m_HasXRefStream, m_XRefOffset, m_Trailer,
              m_visitedXRefOffsets, m_RecursionDepth, stack, lastError, histVars,
              m_CanReuseObjectNumbers, docTrailer, nOps, nLoads, lastOp>>

\* ReadDocumentStructure has returned: ReadObjects.  The trailer may be
\* missing (ReadXRefContents swallows NoTrailer): m_Trailer is then
\* dereferenced although it is null.
ReadObjects ==
    /\ pc = "xref" /\ exc = NoErr /\ stack = <<>>
    /\ loopI' = 0
    /\ IF m_Trailer.isNull
       THEN pc' = "crashed" /\ UNCHANGED <<exc, m_entries, m_Encrypt, encrypt>>
       ELSE IF m_Trailer.src["Encrypt"] = 0
       THEN pc' = "objects1" /\ UNCHANGED <<exc, m_entries, m_Encrypt, encrypt>>
       ELSE \E e \in (IF encrypt = Unread THEN EncryptChoices ELSE {encrypt}) :
               LET i == e.num
                   Raised(err) == /\ pc' = pc /\ exc' = err
                                  /\ UNCHANGED <<m_entries, m_Encrypt>>
                   AuthenticateWith(entries) ==
                       /\ m_entries' = entries
                       /\ m_Encrypt' = TRUE
                       /\ IF Authenticate(m_password)
                          THEN pc' = "objects1" /\ UNCHANGED exc
                          ELSE pc' = pc /\ exc' = "InvalidPassword"
               IN  /\ encrypt' = e
                   /\ CASE e.kind = "null" ->
                               pc' = "objects1" /\ UNCHANGED <<exc, m_entries, m_Encrypt>>
                        [] e.kind = "ref" ->
                               IF i <= 0 \/ i >= Len(m_entries)
                               THEN Raised("InvalidEncryptionDict")
                               ELSE IF e.broken
                               THEN Raised("NoObject")
                               ELSE AuthenticateWith(ExcludeEntry(m_entries, i))
                        [] e.kind = "dict" -> AuthenticateWith(m_entries)
                        [] OTHER -> Raised("InvalidEncryptionDict")
    /\ UNCHANGED <<m_ObjectStreams, m_Objects, m_FreeObjects,
                   m_ObjectCount, m_UnavailableObjects, loadRest>>
    /\ UNCHANGED <<m_password, retry, sideVars>>

\* The end of the loops of ReadObjectsInternal over the table: every entry
\* has had its turn.  EndAfterFirst ends a loop after one entry.
EndAfterFirst(i, entries) == i >= Min(1, Len(entries))
EndOfTable(i, entries) == i >= Len(entries)

\* One turn of the first loop of ReadObjectsInternal.
ReadObject ==
    /\ pc = "objects1" /\ exc = NoErr
    /\ IF EndOfTable(loopI, m_entries)
       THEN /\ pc' = "objects2"
            /\ loopI' = 0
            /\ UNCHANGED <<exc, m_Objects, m_FreeObjects, m_ObjectCount, m_UnavailableObjects>>
       ELSE LET i == loopI
                entry == m_entries[i + 1]
                reference == <<i, entry.Generation>>
                Free(r) == /\ m_FreeObjects' = r.free
                           /\ m_UnavailableObjects' = r.unavailable
                           /\ m_ObjectCount' = r.count
                           /\ UNCHANGED <<exc, m_Objects>>
                AddFree(ref) == Free([free |-> AddFreeObject(m_FreeObjects, ref),
                                      unavailable |-> m_UnavailableObjects,
                                      count |-> TryIncrementObjectCount(m_ObjectCount, ref)])
                Nothing == UNCHANGED <<exc, m_Objects, m_FreeObjects, m_ObjectCount,
                                       m_UnavailableObjects>>
            IN  /\ pc' = pc
                /\ loopI' = i + 1
                /\ IF entry.Parsed
                   THEN CASE entry.Type = "InUse" ->
                               IF entry.Variant > 0
                               THEN IF ~IsIndirect(reference)
                                    THEN /\ exc' = "InvalidHandle"
                                         /\ UNCHANGED <<m_Objects, m_FreeObjects, m_ObjectCount,
                                                        m_UnavailableObjects>>
                                    ELSE \E broken \in BrokenChoices, refs \in ContentChoices(i) :
                                         IF m_Encrypt /\ broken
                                         THEN IF m_IgnoreBrokenObjects
                                              THEN Free(SafeAddFree(m_FreeObjects, m_UnavailableObjects,
                                                                    m_ObjectCount, reference))
                                              ELSE /\ exc' = "NoObject"
                                                   /\ UNCHANGED <<m_Objects, m_FreeObjects, m_ObjectCount,
                                                                  m_UnavailableObjects>>
                                         ELSE /\ m_Objects' = PushObject(m_Objects,
                                                           Obj(reference, "parser", broken, refs))
                                              /\ m_ObjectCount' = TryIncrementObjectCount(m_ObjectCount, reference)
                                              /\ UNCHANGED <<exc, m_FreeObjects, m_UnavailableObjects>>
                               ELSE IF entry.Generation = 0
                               THEN IF m_StrictParsing
                                    THEN /\ exc' = "InvalidXRef"
                                         /\ UNCHANGED <<m_Objects, m_FreeObjects, m_ObjectCount,
                                                        m_UnavailableObjects>>
                                    ELSE AddFree(<<i, 1>>)
                               ELSE Nothing
                          [] entry.Type = "Free" ->
                               IF i # 0
                               THEN Free(SafeAddFree(m_FreeObjects, m_UnavailableObjects,
                                                     m_ObjectCount, reference))
                               ELSE Nothing
                          [] OTHER -> Nothing
                   ELSE IF i # 0 THEN AddFree(<<i, 1>>) ELSE Nothing
    /\ UNCHANGED <<m_entries, m_ObjectStreams, loadRest>>
    /\ UNCHANGED <<encVars, sideVars>>

\* the seen-set of ReadCompressedObjectFromStream
NeverRead(objNo) == FALSE
AlreadyRead(objNo) == objNo \in m_ObjectStreams

\* the numbers the table lists as packed inside container objNo
CompressedIn(objNo) ==
    {i \in 0..(Len(m_entries) - 1) :
        /\ m_entries[i + 1].Parsed
        /\ m_entries[i + 1].Type = "Compressed"
        /\ m_entries[i + 1].Variant = objNo}

RECURSIVE PushAll(_, _)
PushAll(objs, nums) ==
    IF nums = {} THEN objs
    ELSE LET n == CHOOSE x \in nums : TRUE
         IN  PushAll(PushObject(objs, Obj(<<n, 0>>, "plain", FALSE, {})), nums \ {n})

MaxNum(nums) == CHOOSE x \in nums : \A y \in nums : y <= x

\* One turn of the second loop of ReadObjectsInternal:
\* ReadCompressedObjectFromStream for a compressed entry.
ReadCompressedObject ==
    /\ pc = "objects2" /\ exc = NoErr
    /\ IF EndOfTable(loopI, m_entries)
       THEN /\ pc' = IF m_LoadOnDemand THEN "version" ELSE "streams"
            /\ loopI' = 0
            /\ UNCHANGED <<exc, m_ObjectStreams, m_Objects, m_ObjectCount, streamHist>>
       ELSE LET i == loopI
                entry == m_entries[i + 1]
                objNo == entry.Variant
                stream == {o \in GetObject(m_Objects, <<objNo, 0>>) : o.kind = "parser"}
            IN  /\ pc' = pc
                /\ loopI' = i + 1
                /\ IF entry.Parsed /\ entry.Type = "Compressed"
                   THEN IF AlreadyRead(objNo)
                        THEN /\ streamHist' = Asked(streamHist, objNo, FALSE, FALSE)
                             /\ UNCHANGED <<exc, m_ObjectStreams, m_Objects, m_ObjectCount>>
                        ELSE /\ m_ObjectStreams' = m_ObjectStreams \cup {objNo}
                             /\ streamHist' = Asked(streamHist, objNo, stream # {}, stream # {})
                             /\ IF stream = {}
                                THEN /\ exc' = IF m_IgnoreBrokenObjects THEN NoErr ELSE "NoObject"
                                     /\ UNCHANGED <<m_Objects, m_ObjectCount>>
                                ELSE IF \E o \in stream : o.broken
                                THEN /\ exc' = "NoObject"
                                     /\ UNCHANGED <<m_Objects, m_ObjectCount>>
                                ELSE /\ m_Objects' = PushAll(m_Objects, CompressedIn(objNo))
                                     /\ m_ObjectCount' = TryIncrementObjectCount(m_ObjectCount,
                                                            <<MaxNum(CompressedIn(objNo)), 0>>)
                                     /\ UNCHANGED exc
                   ELSE UNCHANGED <<exc, m_ObjectStreams, m_Objects, m_ObjectCount, streamHist>>
    /\ UNCHANGED <<m_entries, m_FreeObjects, m_UnavailableObjects, loadRest>>
    /\ UNCHANGED <<encVars, sideRest>>

\* the object the stream pass stops at: the first, in reference order, that
\* is not a PdfParserObject or whose bytes are malformed
Stoppers == {o \in m_Objects : o.kind # "parser" \/ o.broken}
FirstStopper == CHOOSE o \in Stoppers : \A p \in Stoppers : p = o \/ RefLess(o.ref, p.ref)

\* The eager stream pass of ReadObjectsInternal (m_LoadOnDemand false).  The
\* dynamic_cast of a plain object yields null, which is dereferenced.
ParseStreams ==
    /\ pc = "streams" /\ exc = NoErr
    /\ IF Stoppers = {}
       THEN pc' = "version" /\ UNCHANGED exc
       ELSE IF FirstStopper.kind # "parser"
       THEN pc' = "crashed" /\ UNCHANGED exc
       ELSE pc' = pc /\ exc' = "NoObject"
    /\ UNCHANGED <<loopI, m_entries, m_ObjectStreams, m_Objects, m_FreeObjects,
                   m_ObjectCount, m_UnavailableObjects, loadRest>>
    /\ UNCHANGED <<encVars, sideVars>>

\* the references the trailer of the loaded file may hold
RootChoices ==
    IF corpus = "repo" THEN {{}} \cup {{<<n, 0>>} : n \in 1..(MaxObj - 1)} ELSE {{}}

\* UpdateDocumentVersion and the return of Parse.
FinishParse ==
    /\ pc = "version" /\ exc = NoErr
    /\ \E badVersion \in (IF m_StrictParsing THEN BOOLEAN ELSE {FALSE}) :
          IF badVersion
          THEN pc' = pc /\ exc' = "InvalidName"
          ELSE pc' = "done" /\ UNCHANGED exc
    /\ UNCHANGED <<corpus, file, parserVars, stack, loopI, lastError, histVars,
                   repoVars, docTrailer, nOps, nLoads, lastOp>>
    /\ UNCHANGED <<encVars, sideVars>>

\* PdfMemDocument::initFromParser and the return of loadFromDevice: the
\* document takes a copy of the trailer, and the parser, a local of
\* loadFromDevice, is destroyed.
InitFromParser ==
    /\ pc = "done"
    /\ pc' = "loaded"
    /\ \E roots \in RootChoices : docTrailer' = roots
    /\ m_StrictParsing' = FALSE
    /\ m_visitedXRefOffsets' = {}
    /\ Reset
    /\ UNCHANGED <<corpus, file, stack, exc, loopI, lastError, histVars, repoVars,
                   nOps, nLoads, lastOp>>
    /\ UNCHANGED <<m_password, encrypt, retry, sideVars>>

\* ------------------------------------------- operations on the repository
\* The document is loaded and the caller works on its repository.  Each
\* operation is recorded in lastOp.
Record(op) == lastOp' = <<lastOp[2], op>>

opRest == <<corpus, file, parserVars, ctlVars, histVars, nLoads>>

\* PdfIndirectObjectList::CreateObject: the next free reference is given to
\* a new object, which holds no reference.
CreateObject ==
    /\ pc = "loaded" /\ nOps < MaxOps
    /\ LET r == GetNextFreeObject(m_FreeObjects, m_CanReuseObjectNumbers,
                                  m_ObjectCount, m_UnavailableObjects)
       IN  /\ m_FreeObjects' = r.free
           /\ m_Objects' = PushObject(m_Objects, Obj(r.ref, "plain", FALSE, {}))
           /\ m_ObjectCount' = TryIncrementObjectCount(m_ObjectCount, r.ref)
           /\ Record(Op("create", <<0, 0>>, FALSE, r.ref, {}))
    /\ nOps' = nOps + 1
    /\ UNCHANGED <<m_UnavailableObjects, m_CanReuseObjectNumbers, docTrailer, opRest>>
    /\ UNCHANGED <<encVars, sideVars>>

\* PdfIndirectObjectList::RemoveObject(ref, markAsFree) of a live object
RemoveObject ==
    /\ pc = "loaded" /\ nOps < MaxOps
    /\ \E o \in m_Objects, markAsFree \in BOOLEAN :
          LET r == IF markAsFree
                   THEN SafeAddFree(m_FreeObjects, m_UnavailableObjects, m_ObjectCount, o.ref)
                   ELSE [free |-> m_FreeObjects, unavailable |-> m_UnavailableObjects,
                         count |-> m_ObjectCount]
          IN  /\ m_Objects' = m_Objects \ {o}
              /\ m_FreeObjects' = r.free
              /\ m_UnavailableObjects' = r.unavailable
              /\ m_ObjectCount' = r.count
              /\ Record(Op("remove", o.ref, markAsFree, o.ref, {}))
    /\ nOps' = nOps + 1
    /\ UNCHANGED <<m_CanReuseObjectNumbers, docTrailer, opRest>>
    /\ UNCHANGED <<encVars, sideVars>>

\* RootsOnly stops at the references it is given: the variant C7 is shown
\* to exclude
RootsOnly(objs, refs, seen) == seen \cup refs
\* visitObject: the references reached from the references refs, seen being
\* those already met
RECURSIVE visitObject(_, _, _)
visitObject(objs, refs, seen) ==
    IF refs \subseteq seen THEN seen
    ELSE LET r == CHOOSE x \in refs \ seen : TRUE
             found == UNION {o.refs : o \in GetObject(objs, r)}
         IN  visitObject(objs, refs \cup found, seen \cup {r})

\* PdfDocument::CollectGarbage: every object the trailer does not reach is
\* removed.
CollectGarbage ==
    /\ pc = "loaded" /\ nOps < MaxOps
    /\ LET referencedObj == visitObject(m_Objects, docTrailer, {})
       IN  m_Objects' = {o \in m_Objects : o.ref \in referencedObj}
    /\ Record(Op("gc", <<0, 0>>, FALSE, <<0, 0>>, m_Objects))
    /\ nOps' = nOps + 1
    /\ UNCHANGED <<m_FreeObjects, m_ObjectCount, m_UnavailableObjects,
                   m_CanReuseObjectNumbers, docTrailer, opRest>>
    /\ UNCHANGED <<encVars, sideVars>>

\* PdfIndirectObjectList::SetCanReuseObjectNumbers: disabling the reuse
\* clears the free list.
SetCanReuseObjectNumbers ==
    /\ pc = "loaded" /\ nOps < MaxOps
    /\ \E canReuseObjectNumbers \in BOOLEAN :
          /\ m_CanReuseObjectNumbers' = canReuseObjectNumbers
          /\ m_FreeObjects' = IF canReuseObjectNumbers THEN m_FreeObjects ELSE <<>>
          /\ Record(Op("reuse", <<0, 0>>, canReuseObjectNumbers, <<0, 0>>, {}))
    /\ nOps' = nOps + 1
    /\ UNCHANGED <<m_Objects, m_ObjectCount, m_UnavailableObjects, docTrailer, opRest>>
    /\ UNCHANGED <<encVars, sideVars>>

\* ------------------------------------------- the setters of the parser
setRest == <<corpus, file, m_StrictParsing, m_LoadOnDemand, m_magicOffset, oldVersion,
             m_HasXRefStream, m_XRefOffset, m_Trailer, m_entries, m_ObjectStreams,
             m_visitedXRefOffsets, m_RecursionDepth, ctlVars, histVars, repoVars,
             docTrailer, nOps, nLoads, lastOp, m_Encrypt, encrypt, retry, sideVars>>

BeforeParse == pc \in {"idle", "failed"}

\* PdfParser::SetPassword
SetPassword ==
    /\ BeforeParse
    /\ \E password \in {"", "pw"} :
          /\ password # m_password
          /\ m_password' = password
    /\ UNCHANGED <<m_IgnoreBrokenObjects, setRest>>

\* PdfParser::SetIgnoreBrokenObjects
SetIgnoreBrokenObjects ==
    /\ BeforeParse
    /\ \E ignore \in BOOLEAN :
          /\ ignore # m_IgnoreBrokenObjects
          /\ m_IgnoreBrokenObjects' = ignore
    /\ UNCHANGED <<m_password, setRest>>

\* ------------------------------------------------- one lazily loaded object
\* The bytes of the file are abstract: a byte is 0 or 1, and the document's
\* cipher maps one to the other.
Bytes == {0, 1}
NoByte == -1
Decrypt(b) == 1 - b

\* The objects a file can hold at the offset of the PdfParserObject: a
\* dictionary with or without a string entry (str, its bytes in the file),
\* with or without a stream (stream, its bytes in the file) whose /Filter
\* may name Crypt, as a single name or in an array; the document is
\* encrypted or not, and its encryption object covers the metadata or not.
\* The PdfParserObject is the one of an indirect object, of the trailer or
\* of the encryption dictionary.
ParserObjectKinds == {"object", "trailer", "encrypt"}
Devices ==
    {d \in [str : Bytes \cup {NoByte}, stream : Bytes \cup {NoByte}, crypt : BOOLEAN,
            array : BOOLEAN, kind : ParserObjectKinds,
            encrypted : BOOLEAN, metadataEncrypted : BOOLEAN] :
        /\ d.crypt => d.stream # NoByte
        /\ d.array => d.crypt
        /\ d.kind = "trailer" => d.stream = NoByte
        /\ d.kind = "encrypt" => d.encrypted
        /\ d.metadataEncrypted => d.encrypted}
NoDevice == [str |-> NoByte, stream |-> NoByte, crypt |-> FALSE, array |-> FALSE,
             kind |-> "object", encrypted |-> FALSE, metadataEncrypted |-> FALSE]

NullVariant == [type |-> "Null", str |-> NoByte, crypt |-> FALSE, array |-> FALSE]

\* PdfParserObject::PdfParserObject, and SetEncrypt as PdfParser calls it:
\* on the objects of the table, not on the trailer nor on the encryption
\* dictionary
NewParserObject(d) ==
    [m_Variant |-> NullVariant, m_Stream |-> NoByte,
     m_IsDelayedLoadDone |-> FALSE, m_IsDelayedLoadStreamDone |-> FALSE,
     m_IsDirty |-> FALSE, m_Encrypt |-> d.encrypted /\ d.kind = "object",
     m_IsTrailer |-> d.kind = "trailer", m_HasStream |-> FALSE]

\* PdfParserObject::Parse(PdfTokenizer&): strings are decrypted when the
\* object holds an encryption object
ParseValue(o) ==
    [o EXCEPT !.m_Variant = [type |-> "Dictionary",
                             str |-> IF m_device.str # NoByte /\ o.m_Encrypt
                                     THEN Decrypt(m_device.str) ELSE m_device.str,
                             crypt |-> m_device.crypt,
                             array |-> m_device.array],
              !.m_HasStream = o.m_HasStream \/ (~o.m_IsTrailer /\ m_device.stream # NoByte)]

\* PdfObject::DelayedLoad
DelayedLoad(o) ==
    IF o.m_IsDelayedLoadDone THEN o
    ELSE [ParseValue(o) EXCEPT !.m_IsDelayedLoadDone = TRUE]

\* PdfParserObject::parseStream: a Crypt filter in an array /Filter drops
\* the encryption object of this PdfParserObject
DropEncrypt(o) ==
    o.m_Encrypt /\ ~m_device.metadataEncrypted /\ o.m_Variant.array /\ o.m_Variant.crypt
parseStream(o) ==
    LET enc == o.m_Encrypt /\ ~DropEncrypt(o)
    IN  [o EXCEPT !.m_Encrypt = enc,
                  !.m_Stream = IF enc THEN Decrypt(m_device.stream) ELSE m_device.stream]

\* PdfObject::DelayedLoadStream
DelayedLoadStream(o) ==
    LET p == DelayedLoad(o)
    IN  IF p.m_IsDelayedLoadStreamDone THEN p
        ELSE [(IF p.m_HasStream THEN parseStream(p) ELSE p)
                 EXCEPT !.m_IsDelayedLoadStreamDone = TRUE]

\* PdfParserObject::FreeObjectMemory
AlwaysFree(o, force) == TRUE
MayFree(o, force) == ~o.m_IsDirty \/ force
FreeObjectMemory(o, force) ==
    IF MayFree(o, force)
    THEN [o EXCEPT !.m_Variant = IF o.m_IsDelayedLoadDone THEN NullVariant ELSE @,
                   !.m_Stream = NoByte,
                   !.m_IsDelayedLoadDone = FALSE,
                   !.m_IsDelayedLoadStreamDone = FALSE]
    ELSE o

\* history: what the caller held of the clean object at its last eviction
Held(hasValue, value, hasStream, stream) ==
    [hasValue |-> hasValue, value |-> value, hasStream |-> hasStream, stream |-> stream]
NoHeld == Held(FALSE, NullVariant, FALSE, NoByte)
Call(op, force, held) == [op |-> op, force |-> force, held |-> held]
NoCall == Call("none", FALSE, NoHeld)

objRest == <<loadVars, streamHist, m_Writer, memDoc, pages>>

\* get(ref) and a read of the value
GetValue ==
    /\ corpus = "object"
    /\ parserObject' = DelayedLoad(parserObject)
    /\ lastCall' = Call("GetValue", FALSE, lastCall.held)
    /\ UNCHANGED <<m_device, objRest>>

\* get(ref) and a read of the stream
GetStream ==
    /\ corpus = "object"
    /\ parserObject' = DelayedLoadStream(parserObject)
    /\ lastCall' = Call("GetStream", FALSE, lastCall.held)
    /\ UNCHANGED <<m_device, objRest>>

\* a change of the dictionary through the object: PdfObject::SetDirty
SetDirty ==
    /\ corpus = "object"
    /\ ~parserObject.m_IsDirty
    /\ \E b \in Bytes :
          parserObject' = [DelayedLoad(parserObject) EXCEPT !.m_Variant.str = b,
                                                            !.m_IsDirty = TRUE]
    /\ lastCall' = Call("SetDirty", FALSE, NoHeld)
    /\ UNCHANGED <<m_device, objRest>>

\* PdfMemDocument::FreeObjectMemory(ref, force)
FreeMemory ==
    /\ corpus = "object"
    /\ \E force \in BOOLEAN :
          /\ parserObject' = FreeObjectMemory(parserObject, force)
          /\ lastCall' = Call("FreeObjectMemory", force,
                IF parserObject.m_IsDirty THEN lastCall.held
                ELSE Held(lastCall.held.hasValue \/ parserObject.m_IsDelayedLoadDone,
                          IF parserObject.m_IsDelayedLoadDone
                          THEN parserObject.m_Variant ELSE lastCall.held.value,
                          lastCall.held.hasStream \/ parserObject.m_IsDelayedLoadStreamDone,
                          IF parserObject.m_IsDelayedLoadStreamDone
                          THEN parserObject.m_Stream ELSE lastCall.held.stream))
    /\ UNCHANGED <<m_device, objRest>>


\* ------------------------------------------------------------ the page tree
\* The objects of the tree are named by numbers; TreeRoot is the root Pages
\* node and 0 stands for a null pointer.
TreeRoot == 1
\* a kids entry that is not a reference, a nested array for one
NotAReference == 0
Ids == 1..(MaxPages + 5)
Node(type, kids, count) == [Type |-> type, Kids |-> kids, Count |-> count]
Absent == Node("none", <<>>, 0)

\* PdfPageCollection::GetChildCount
GetChildCount(objs, node) == objs[node].Count

\* the cycle test of GetPageNode: the child is one of the nodes on the path
NeverInParents(child, parents) == FALSE
InParents(child, parents) == \E j \in 1..Len(parents) : parents[j] = child

Found(node, parents, err) == [node |-> node, parents |-> parents, err |-> err]

\* PdfPageCollection::GetPageNode.  Walk is its loop over the kids array
\* from position k on.  A recursion deeper than the number of objects never
\* ends in the program: it is reported as "overflow".
RECURSIVE GetPageNode(_, _, _, _)
RECURSIVE Walk(_, _, _, _, _)
\* the kid at position k is not a reference: the walk ends without a page
SkipInvalidKid(objs, index, parent, parents, k) == Walk(objs, index, parent, parents, k + 1)
InvalidKid(objs, index, parent, parents, k) == Found(0, parents, NoErr)
Walk(objs, index, parent, parents, k) ==
    IF k > Len(objs[parent].Kids) THEN Found(0, parents, NoErr)
    ELSE LET child == objs[parent].Kids[k]
         IN  IF child = NotAReference THEN InvalidKid(objs, index, parent, parents, k)
             ELSE
             CASE objs[child].Type = "Pages" ->
                    IF GetChildCount(objs, child) < index + 1
                    THEN Walk(objs, index - GetChildCount(objs, child), parent, parents, k + 1)
                    ELSE LET path == Append(parents, parent)
                         IN  IF InParents(child, path)
                             THEN Found(0, path, "PageNotFound")
                             ELSE GetPageNode(objs, index, child, path)
               [] objs[child].Type = "Page" ->
                    IF index = 0
                    THEN Found(child, Append(parents, parent), NoErr)
                    ELSE Walk(objs, index - 1, parent, parents, k + 1)
               [] OTHER -> Found(0, parents, NoErr)
GetPageNode(objs, index, parent, parents) ==
    IF Len(parents) > Cardinality(Ids) THEN Found(0, parents, "overflow")
    ELSE IF index > GetChildCount(objs, parent) THEN Found(0, parents, NoErr)
    ELSE Walk(objs, index, parent, parents, 1)

\* PdfPageCollection::GetPosInKids, -1 when the page is not a kid
GetPosInKids(objs, page, parent) ==
    LET kids == objs[parent].Kids
        at == {k \in 1..Len(kids) : kids[k] = page}
    IN  IF at = {} THEN -1 ELSE (CHOOSE k \in at : \A j \in at : k <= j) - 1

\* PdfPageCollection::ChangePagesCount for every node of parents
ChangePagesCount(objs, parents, delta) ==
    [n \in Ids |-> IF n \in Range(parents)
                   THEN [objs[n] EXCEPT !.Count = @ + delta] ELSE objs[n]]

\* PdfPageCollection::InsertPagesIntoNode with one page: the page goes in
\* front of the first kid whose position is larger than index, or to the
\* end when index names the last kid
InsertPagesIntoNode(objs, parent, parents, index, page) ==
    LET oldKids == objs[parent].Kids
        pos == IF index < 0 THEN 0 ELSE index + 1
        newKids == IF pos < Len(oldKids)
                   THEN SubSeq(oldKids, 1, pos) \o <<page>>
                            \o SubSeq(oldKids, pos + 1, Len(oldKids))
                   ELSE IF index + 1 = Len(oldKids) THEN Append(oldKids, page)
                   ELSE oldKids
    IN  ChangePagesCount([objs EXCEPT ![parent].Kids = newKids], parents, 1)

\* PdfPageCollection::DeletePageNode
DeletePageNode(objs, parent, index) ==
    [objs EXCEPT ![parent].Kids =
        SubSeq(@, 1, index) \o SubSeq(@, index + 2, Len(@))]

\* PdfPageCollection::IsEmptyPageNode
IsEmptyPageNode(objs, node) ==
    GetChildCount(objs, node) = 0 \/ objs[node].Kids = <<>>

\* the third step of DeletePageFromNode, from the deepest parent upwards:
\* an empty node other than the root leaves the kids of its parent and the
\* repository
RECURSIVE RemoveEmptyNodes(_, _, _)
RemoveEmptyNodes(objs, parents, j) ==
    IF j < 1 THEN objs
    ELSE IF IsEmptyPageNode(objs, parents[j]) /\ parents[j] # TreeRoot
    THEN LET parentOfNode == parents[j - 1]
             kidsIndex == GetPosInKids(objs, parents[j], parentOfNode)
         IN  RemoveEmptyNodes([DeletePageNode(objs, parentOfNode, kidsIndex)
                                  EXCEPT ![parents[j]] = Absent],
                              parents, j - 1)
    ELSE RemoveEmptyNodes(objs, parents, j - 1)

\* PdfPageCollection::DeletePageFromNode
DeletePageFromNode(objs, parent, parents, index) ==
    RemoveEmptyNodes(ChangePagesCount(DeletePageNode(objs, parent, index), parents, -1),
                     parents, Len(parents))

\* PdfPageTreeCache::GetPage
Cache_GetPage(c, atIndex) == IF atIndex >= Len(c) THEN 0 ELSE c[atIndex + 1]

Nulls(n) == [k \in 1..n |-> 0]

\* PdfPageTreeCache::SetPage
Cache_SetPage(c, atIndex, page) ==
    [(IF atIndex >= Len(c) THEN c \o Nulls(atIndex + 1 - Len(c)) ELSE c)
        EXCEPT ![atIndex + 1] = page]

\* PdfPageTreeCache::InsertPlaceHolders with count 1
Cache_NoPlaceHolders(c, atIndex) == c
Cache_InsertPlaceHolders(c, atIndex) ==
    LET r == IF atIndex >= Len(c) THEN c \o Nulls(atIndex - Len(c)) ELSE c
    IN  SubSeq(r, 1, atIndex) \o <<0>> \o SubSeq(r, atIndex + 1, Len(r))

\* PdfPageTreeCache::DeletePage
Cache_DeletePage(c, atIndex) ==
    IF atIndex >= Len(c) THEN c
    ELSE SubSeq(c, 1, atIndex) \o SubSeq(c, atIndex + 2, Len(c))

\* The objects no kids array and no cache entry names are out of reach of
\* the page tree: they are forgotten, and their numbers name new pages.
Reached(objs, cache) ==
    {TreeRoot} \cup UNION {Range(objs[n].Kids) : n \in Ids} \cup (Range(cache) \ {0})
Forget(objs, cache) == [n \in Ids |-> IF n \in Reached(objs, cache) THEN objs[n] ELSE Absent]
NewPage(objs) == CHOOSE n \in Ids : objs[n] = Absent /\ \A m \in Ids : objs[m] = Absent => n <= m

\* PdfPageCollection::GetCount
GetCount(objs) == GetChildCount(objs, TreeRoot)

\* PdfPageCollection::InsertPages with one page
InsertPages(objs, cache, index, page) ==
    LET pageCount == GetCount(objs)
        after == pageCount # 0 /\ index >= pageCount
        atIndex == IF after THEN pageCount ELSE index
        pivot == IF pageCount = 0 THEN Found(0, <<>>, NoErr)
                 ELSE GetPageNode(objs, IF after THEN pageCount - 1 ELSE atIndex,
                                  TreeRoot, <<>>)
    IN  IF pivot.err # NoErr THEN [objs |-> objs, cache |-> cache, err |-> pivot.err]
        ELSE IF pivot.node = 0 \/ pivot.parents = <<>>
        THEN IF pageCount # 0
             THEN [objs |-> objs, cache |-> cache, err |-> NoErr]
             ELSE [objs |-> InsertPagesIntoNode(objs, TreeRoot, <<TreeRoot>>, -1, page),
                   cache |-> Cache_InsertPlaceHolders(cache, atIndex), err |-> NoErr]
        ELSE LET parentNode == pivot.parents[Len(pivot.parents)]
                 posInKids == GetPosInKids(objs, pivot.node, parentNode)
             IN  [objs |-> InsertPagesIntoNode(objs, parentNode, pivot.parents,
                              IF after THEN posInKids ELSE posInKids - 1, page),
                  cache |-> Cache_InsertPlaceHolders(cache, atIndex), err |-> NoErr]

\* history: the last call on the collection, the page it returned and
\* whether the cache held it
PageCall(op, index, result, err, cached) ==
    [op |-> op, index |-> index, result |-> result, err |-> err, cached |-> cached]
NoPageCall == PageCall("none", 0, 0, NoErr, FALSE)

pageRest == <<loadVars, objVars, streamHist, m_Writer, memDoc>>

\* the sequence with x put in front of position k, counted from 0
InsertAt(seq, k, x) == SubSeq(seq, 1, k) \o <<x>> \o SubSeq(seq, k + 1, Len(seq))
RemoveAt(seq, k) == SubSeq(seq, 1, k) \o SubSeq(seq, k + 2, Len(seq))

\* the new page is put at index, in the tree and in the cache
PutPage(op, index) ==
    LET page == NewPage(pages.objs)
        objs == [pages.objs EXCEPT ![page] = Node("Page", <<>>, 0)]
        r == InsertPages(objs, pages.m_cache, index, page)
        cache == IF r.err = NoErr THEN Cache_SetPage(r.cache, index, page) ELSE r.cache
    IN  pages' = [pages EXCEPT
                    !.objs = Forget(r.objs, cache),
                    !.m_cache = cache,
                    !.seq = IF r.err = NoErr THEN InsertAt(@, index, page) ELSE @,
                    !.last = PageCall(op, index, IF r.err = NoErr THEN page ELSE 0,
                                      r.err, FALSE)]

\* PdfPageCollection::CreatePage
CreatePage ==
    /\ corpus = "pages" /\ GetCount(pages.objs) < MaxPages
    /\ PutPage("CreatePage", GetCount(pages.objs))
    /\ UNCHANGED pageRest

\* PdfPageCollection::InsertPage(atIndex, size)
InsertPage ==
    /\ corpus = "pages" /\ GetCount(pages.objs) < MaxPages
    /\ \E atIndex \in 0..(GetCount(pages.objs) + 1) :
          PutPage("InsertPage", Min(atIndex, GetCount(pages.objs)))
    /\ UNCHANGED pageRest

\* PdfPageCollection::DeletePage
DeletePage ==
    /\ corpus = "pages"
    /\ \E atIndex \in 0..GetCount(pages.objs) :
          LET cache == Cache_DeletePage(pages.m_cache, atIndex)
              f == GetPageNode(pages.objs, atIndex, TreeRoot, <<>>)
              ok == f.err = NoErr /\ f.node # 0 /\ f.parents # <<>>
              parent == f.parents[Len(f.parents)]
              objs == IF ok
                      THEN DeletePageFromNode(pages.objs, parent, f.parents,
                                              GetPosInKids(pages.objs, f.node, parent))
                      ELSE pages.objs
          IN  pages' = [pages EXCEPT
                          !.objs = Forget(objs, cache),
                          !.m_cache = cache,
                          !.seq = IF ok THEN RemoveAt(@, atIndex) ELSE @,
                          !.last = PageCall("DeletePage", atIndex, 0,
                                            IF ok THEN NoErr ELSE "PageNotFound", FALSE)]
    /\ UNCHANGED pageRest

\* PdfPageCollection::GetPage(index)
GetPage ==
    /\ corpus \in {"pages", "cycle", "broken"}
    /\ \E index \in 0..(GetCount(pages.objs) + 1) :
          LET cached == Cache_GetPage(pages.m_cache, index)
              f == GetPageNode(pages.objs, index, TreeRoot, <<>>)
          IN  IF index >= GetCount(pages.objs)
              THEN pages' = [pages EXCEPT
                                !.last = PageCall("GetPage", index, 0, "PageNotFound", FALSE)]
              ELSE IF cached # 0
              THEN pages' = [pages EXCEPT
                                !.last = PageCall("GetPage", index, cached, NoErr, TRUE)]
              ELSE IF f.err = NoErr /\ f.node # 0
              THEN pages' = [pages EXCEPT
                                !.m_cache = Cache_SetPage(@, index, f.node),
                                !.last = PageCall("GetPage", index, f.node, NoErr, FALSE)]
              ELSE pages' = [pages EXCEPT
                                !.last = PageCall("GetPage", index, 0,
                                            IF f.err = NoErr THEN "PageNotFound" ELSE f.err,
                                            FALSE)]
    /\ UNCHANGED pageRest

\* the trees the collection is built on: Tree(objs, up) gives the objects
\* and, for every Pages node, its parent
Objs(nodes) == [n \in Ids |-> IF n \in DOMAIN nodes THEN nodes[n] ELSE Absent]
EmptyTree == Objs(1 :> Node("Pages", <<>>, 0))
\* two Pages nodes under the root
CustomTree ==
    Objs(1 :> Node("Pages", <<2, 3>>, 3) @@ 2 :> Node("Pages", <<4, 5>>, 2)
         @@ 3 :> Node("Pages", <<6>>, 1) @@ 4 :> Node("Page", <<>>, 0)
         @@ 5 :> Node("Page", <<>>, 0) @@ 6 :> Node("Page", <<>>, 0))
\* a Pages node inside a Pages node
NestedTree ==
    Objs(1 :> Node("Pages", <<2>>, 3) @@ 2 :> Node("Pages", <<3, 6>>, 3)
         @@ 3 :> Node("Pages", <<4, 5>>, 2) @@ 4 :> Node("Page", <<>>, 0)
         @@ 5 :> Node("Page", <<>>, 0) @@ 6 :> Node("Page", <<>>, 0))
\* Pages nodes without kids behind the pages
EmptyKidsTree ==
    Objs(1 :> Node("Pages", <<2, 3, 7>>, 3) @@ 2 :> Node("Pages", <<4, 5, 6>>, 3)
         @@ 3 :> Node("Pages", <<>>, 0) @@ 7 :> Node("Pages", <<>>, 0)
         @@ 4 :> Node("Page", <<>>, 0) @@ 5 :> Node("Page", <<>>, 0)
         @@ 6 :> Node("Page", <<>>, 0))
\* Pages nodes without kids on both sides of the pages
EmptyFirstTree ==
    Objs(1 :> Node("Pages", <<2, 3, 7>>, 2) @@ 2 :> Node("Pages", <<>>, 0)
         @@ 3 :> Node("Pages", <<4, 5>>, 2) @@ 7 :> Node("Pages", <<>>, 0)
         @@ 4 :> Node("Page", <<>>, 0) @@ 5 :> Node("Page", <<>>, 0))
WellFormedTrees == {EmptyTree, CustomTree, NestedTree, EmptyKidsTree, EmptyFirstTree}

\* the pages of a tree without a cycle, in the order of the kids arrays
RECURSIVE Leaves(_, _)
RECURSIVE LeavesOf(_, _, _)
LeavesOf(objs, kids, k) ==
    IF k > Len(kids) THEN <<>> ELSE Leaves(objs, kids[k]) \o LeavesOf(objs, kids, k + 1)
Leaves(objs, n) ==
    IF objs[n].Type = "Page" THEN <<n>>
    ELSE IF objs[n].Type = "Pages" THEN LeavesOf(objs, objs[n].Kids, 1)
    ELSE <<>>

\* the parent of a Pages node of a tree without a cycle, 0 for the root
Up(objs, n) ==
    LET ps == {m \in Ids : objs[m].Type = "Pages" /\ n \in Range(objs[m].Kids)}
    IN  IF ps = {} THEN 0 ELSE CHOOSE m \in ps : TRUE
RECURSIVE SelfAndAncestors(_, _)
SelfAndAncestors(objs, n) ==
    IF n = 0 THEN {} ELSE {n} \cup SelfAndAncestors(objs, Up(objs, n))

\* a tree with one kid of one Pages node replaced by a reference to the
\* node itself or to one of its ancestors; the counts are left as they were
CyclicTrees(base) ==
    {[base EXCEPT ![n].Kids[k] = a] :
        <<n, k, a>> \in {t \in Ids \X (1..MaxPages) \X Ids :
                            /\ base[t[1]].Type = "Pages"
                            /\ t[2] <= Len(base[t[1]].Kids)
                            /\ t[3] \in SelfAndAncestors(base, t[1])}}

\* the kids of the root are one array holding the references of the pages
FlatTree ==
    Objs(1 :> Node("Pages", <<4, 5, 6>>, 3) @@ 4 :> Node("Page", <<>>, 0)
         @@ 5 :> Node("Page", <<>>, 0) @@ 6 :> Node("Page", <<>>, 0))
NestedArrayTree == [FlatTree EXCEPT ![TreeRoot].Kids = <<NotAReference>>]

\* a tree with one kid of one Pages node replaced by something that is not
\* a reference; the counts are left as they were
BrokenTrees(base) ==
    {[base EXCEPT ![n].Kids[k] = NotAReference] :
        <<n, k>> \in {t \in Ids \X (1..MaxPages) :
                        /\ base[t[1]].Type = "Pages"
                        /\ t[2] <= Len(base[t[1]].Kids)}}

\* PdfPageCollection::PdfPageCollection: the collection of a loaded
\* document is built with one empty place per page in its cache, the one
\* of a new document, whose tree is built afterwards, with none
NewCollection(objs, base, initialSize) ==
    [objs |-> objs, m_cache |-> Nulls(initialSize), seq |-> Leaves(base, TreeRoot),
     base |-> base, last |-> NoPageCall]
InitialSizes(objs) == {0, GetCount(objs)}
NoCollection == NewCollection(EmptyTree, EmptyTree, 0)

\* ------------------------------------------------- the immediate writer
\* The device of the writer is a sequence of bytes and a position.  The
\* markers are spelled out; the header, an object's number, generation and
\* value, and the cross-reference section are abbreviated.
NotClosed == "no"
Header == <<"%">>
EndObj == <<"e", "n", "d", "o", "b", "j", "\n">>
Stream == <<"s", "t", "r", "e", "a", "m", "\n">>
EndStream == <<"\n", "e", "n", "d", "s", "t", "r", "e", "a", "m", "\n">>
XRefSection == <<"x", "r", "e", "f", "\n">>
Trailer == <<"t", "r", "a", "i", "l", "e", "r", "\n">>
StartXRef == <<"s", "t", "a", "r", "t", "x", "r", "e", "f", "\n">>
EOF == <<"%", "%", "E", "O", "F", "\n">>
endObjLenght == Len(EndObj)

\* OutputStreamDevice::Write at the position, OutputStreamDevice::Seek
Device(bytes, position) == [bytes |-> bytes, position |-> position]
DeviceWrite(dev, data) ==
    Device(SubSeq(dev.bytes, 1, dev.position) \o data
               \o SubSeq(dev.bytes, dev.position + Len(data) + 1, Len(dev.bytes)),
           dev.position + Len(data))
DeviceSeek(dev, position) == Device(dev.bytes, position)

\* PdfObject::Write: "<number> obj", the value, then the closing marker
ObjHead(obj) == <<ToString(obj), " ", "o", "b", "j", "\n">>
ObjectWrite(dev, obj) == DeviceWrite(DeviceWrite(dev, ObjHead(obj)), EndObj)

\* the kinds of stream CreateStream makes; NoStream for an object without
WriterObjects == 1..(MaxObj + 1)
NoStreams == [obj \in WriterObjects |-> "NoStream"]
WriterCall(op, obj, start, end) == [op |-> op, obj |-> obj, start |-> start, end |-> end]

\* PdfImmediateWriter::PdfImmediateWriter: the header is written at once.
\* ram holds the numbers of the objects the repository keeps in memory,
\* free its free list, m_xRef the entries given to AddInUseObject;
\* debug tells whether PDFMM_ASSERT is compiled in.
NewWriter(useXRefStream, enc, debug) ==
    [m_attached |-> TRUE, m_Last |-> 0, m_OpenStream |-> FALSE,
     useXRefStream |-> useXRefStream, encrypt |-> enc, debug |-> debug,
     m_Device |-> DeviceWrite(Device(<<>>, 0), Header), m_xRef |-> <<>>,
     flushed |-> FALSE, ram |-> {}, free |-> {}, made |-> 0,
     streams |-> NoStreams, m_Append |-> {}, asserted |-> FALSE,
     closed |-> NotClosed, last |-> WriterCall("none", 0, 0, 0)]
NoWriter ==
    [NewWriter(FALSE, FALSE, FALSE) EXCEPT !.m_attached = FALSE, !.m_Device = Device(<<>>, 0)]

\* PdfIndirectObjectList::RemoveObject(ref, markAsFree): the object and its
\* stream are destroyed
RemoveWritten(w, obj, markAsFree) ==
    [w EXCEPT !.ram = @ \ {obj},
              !.free = IF markAsFree THEN @ \cup {obj} ELSE @,
              !.streams[obj] = "NoStream",
              !.m_Append = @ \ {obj}]

\* PdfImmediateWriter::FinishLastObject
FinishLastObject(w) ==
    IF w.m_Last # 0
    THEN [RemoveWritten(w, w.m_Last, FALSE)
              EXCEPT !.m_Device = DeviceWrite(DeviceWrite(@, EndStream), EndObj),
                     !.m_Last = 0]
    ELSE w

\* PdfXRef::AddInUseObject
AddInUseObject(w, obj, offset) ==
    [w EXCEPT !.m_xRef = Append(@, [ref |-> obj, offset |-> offset])]

\* PdfWriter::WritePdfObjects: every object still in memory is written whole
RECURSIVE WritePdfObjects(_, _)
WritePdfObjects(w, objs) ==
    IF objs = {} THEN w
    ELSE LET obj == CHOOSE o \in objs : \A other \in objs : o <= other
         IN  WritePdfObjects(
                 [AddInUseObject(w, obj, w.m_Device.position)
                      EXCEPT !.m_Device = ObjectWrite(@, obj)],
                 objs \ {obj})

\* PdfImmediateWriter::Finish.  The raise after the write of the
\* cross-reference section is unconditional: the trailer, the startxref
\* line, the end marker, the flush and the Detach that follow it in the
\* source are never executed.
Finish(w) ==
    LET last == FinishLastObject(w)
        enc == IF last.encrypt
               THEN [last EXCEPT !.ram = @ \cup {last.made + 1}, !.made = @ + 1]
               ELSE last
        objs == WritePdfObjects(enc, enc.ram)
        xref == [objs EXCEPT !.m_Device = DeviceWrite(@, XRefSection)]
    IN  [xref EXCEPT !.closed = "NotImplemented",
                     !.last = WriterCall("Finish", 0, objs.m_Device.position,
                                         xref.m_Device.position)]

wrRest == <<loadVars, objVars, streamHist, memDoc, pages>>
Open == corpus = "streamed" /\ m_Writer.closed = NotClosed

\* PdfIndirectObjectList::CreateObject on the streamed document
CreateStreamedObject ==
    /\ Open /\ m_Writer.made < MaxObj
    /\ m_Writer' = [m_Writer EXCEPT !.ram = @ \cup {m_Writer.made + 1}, !.made = @ + 1,
                                    !.last = WriterCall("CreateObject", m_Writer.made + 1,
                                                        m_Writer.m_Device.position,
                                                        m_Writer.m_Device.position)]
    /\ UNCHANGED wrRest

\* PdfImmediateWriter::CreateStream: the stream factory of the repository,
\* asked for the stream of an object that has none
CreateStream ==
    /\ Open
    /\ \E parent \in m_Writer.ram :
          /\ m_Writer.streams[parent] = "NoStream"
          /\ m_Writer' = [m_Writer EXCEPT
                             !.streams[parent] = IF m_Writer.m_OpenStream THEN "Memory"
                                                 ELSE "File",
                             !.last = WriterCall("CreateStream", parent,
                                                 m_Writer.m_Device.position,
                                                 m_Writer.m_Device.position)]
    /\ UNCHANGED wrRest

\* PdfImmediateWriter::WriteObject: the object is written and its closing
\* marker replaced by the opening marker of its stream.  The object of the
\* notification is any object of the repository; when it is m_Last,
\* FinishLastObject destroys it before it is written, and the write either
\* crashes or writes what the freed object still holds.
WrittenObject(w, obj) ==
    LET start == w.m_Device.position
        added == AddInUseObject(w, obj, start)
        written == ObjectWrite(added.m_Device, obj)
        sought == DeviceSeek(written, written.position - endObjLenght)
    IN  [added EXCEPT !.m_Device = DeviceWrite(sought, Stream),
                      !.m_Last = obj,
                      !.last = WriterCall("WriteObject", obj, start, written.position)]
WriteObject ==
    /\ Open
    /\ \E obj \in m_Writer.ram :
          IF obj = m_Writer.m_Last
          THEN \E crash \in BOOLEAN :
                  m_Writer' = IF crash
                              THEN [FinishLastObject(m_Writer) EXCEPT
                                       !.closed = "crashed",
                                       !.last = WriterCall("crashed", obj,
                                                           m_Writer.m_Device.position,
                                                           m_Writer.m_Device.position)]
                              ELSE WrittenObject(FinishLastObject(m_Writer), obj)
          ELSE m_Writer' = WrittenObject(FinishLastObject(m_Writer), obj)
    /\ UNCHANGED wrRest

\* PDFMM_ASSERT: the condition is tested in a debug build only, and the
\* program is aborted when it does not hold
Asserted(w, condition) ==
    IF condition THEN w
    ELSE [w EXCEPT !.asserted = TRUE, !.closed = IF w.debug THEN "aborted" ELSE @]

\* PdfImmediateWriter::BeginAppendStream, notified by the BeginAppend of a
\* stream that is not in append mode
BeginAppendStream ==
    /\ Open
    /\ \E stream \in m_Writer.ram \ m_Writer.m_Append :
          /\ m_Writer.streams[stream] # "NoStream"
          /\ LET called == [m_Writer EXCEPT
                               !.last = WriterCall("BeginAppendStream", stream,
                                                   m_Writer.m_Device.position,
                                                   m_Writer.m_Device.position)]
                 checked == Asserted(called, ~m_Writer.m_OpenStream)
             IN  m_Writer' =
                    IF m_Writer.streams[stream] # "File"
                    THEN [called EXCEPT !.m_Append = @ \cup {stream}]
                    ELSE IF checked.closed # NotClosed THEN checked
                    ELSE [checked EXCEPT !.m_OpenStream = TRUE,
                                         !.m_Append = @ \cup {stream}]
    /\ UNCHANGED wrRest

\* PdfImmediateWriter::EndAppendStream, notified by the EndAppend of a
\* stream that is in append mode
EndAppendStream ==
    /\ Open
    /\ \E stream \in m_Writer.m_Append :
          LET called == [m_Writer EXCEPT
                            !.last = WriterCall("EndAppendStream", stream,
                                                m_Writer.m_Device.position,
                                                m_Writer.m_Device.position)]
              checked == Asserted(called, m_Writer.m_OpenStream)
          IN  m_Writer' =
                 IF m_Writer.streams[stream] # "File"
                 THEN [called EXCEPT !.m_Append = @ \ {stream}]
                 ELSE IF checked.closed # NotClosed THEN checked
                 ELSE [checked EXCEPT !.m_OpenStream = FALSE,
                                      !.m_Append = @ \ {stream}]
    /\ UNCHANGED wrRest

\* PdfStreamedDocument::Close: the repository's Finish calls the Finish of
\* its observer, the writer
Close ==
    /\ Open
    /\ m_Writer' = Finish(m_Writer)
    /\ UNCHANGED wrRest

\* ------------------------------------------------------ incremental update
\* PdfMemDocument::initFromParser: the document keeps the offset of the
\* cross-reference section the parser started from; the sink holds the
\* loaded file, size bytes long.
LoadedDocument(offset, hasXRefStream) ==
    [m_PrevXRefOffset |-> offset, m_HasXRefStream |-> hasXRefStream,
     size |-> Beyond, position |-> 0, revisions |-> <<>>]
NoDocument == LoadedDocument(0, FALSE)

\* PdfWriter::Write on the sink: objects bytes of changed objects, then the
\* cross-reference section with its previous-offset, one byte long here
Revision(start, xref, prev, useXRefStream) ==
    [start |-> start, xref |-> xref, prev |-> prev, useXRefStream |-> useXRefStream]

updRest == <<loadVars, objVars, streamHist, m_Writer, pages>>

\* the caller moves the position of the sink
Seek ==
    /\ corpus = "update"
    /\ \E position \in 0..memDoc.size :
          /\ position # memDoc.position
          /\ memDoc' = [memDoc EXCEPT !.position = position]
    /\ UNCHANGED updRest

\* PdfMemDocument::SaveUpdate(device, opts)
SaveUpdate ==
    /\ corpus = "update" /\ Len(memDoc.revisions) < MaxOps
    /\ \E objects \in 1..2 :
          LET start == memDoc.size
              xref == start + objects
          IN  memDoc' = [memDoc EXCEPT
                            !.revisions = Append(@, Revision(start, xref,
                                              memDoc.m_PrevXRefOffset, memDoc.m_HasXRefStream)),
                            !.size = xref + 1,
                            !.position = xref + 1]
    /\ UNCHANGED updRest

\* ----------------------------------------------------- the PDF extensions
\* The /Extensions key of the catalog: NoExtensions when the catalog has no
\* such key, else a dictionary from namespace names to the /ExtensionLevel
\* of the extension, NoLevel for a name that is not a key of the dictionary.
\* "ns" is a namespace name like any other.
Namespaces == {"ADBE", "ESIC", "ns"}
NoLevel == 0
Levels == 1..MaxLevel
EmptyDictionary == [ns \in Namespaces |-> NoLevel]
Dictionary(dict) == [present |-> TRUE, dict |-> dict]
NoExtensions == [present |-> FALSE, dict |-> EmptyDictionary]
ExtCall(op, ns, level, before) == [op |-> op, ns |-> ns, level |-> level, before |-> before]
CatalogDocument(extensions) ==
    [Extensions |-> extensions, last |-> ExtCall("none", "ns", NoLevel, extensions)]

\* PdfMemDocument::HasPdfExtension
HasPdfExtension(extensions, ns, level) ==
    extensions.present /\ extensions.dict[ns] # NoLevel /\ extensions.dict[ns] = level

\* the key RemovePdfExtension removes from the dictionary
RemovedKey(ns) == "ns"

\* PdfMemDocument::AddPdfExtension
AddPdfExtension ==
    /\ corpus = "extensions"
    /\ \E ns \in Namespaces, level \in Levels :
          memDoc' = [Extensions |->
                        IF HasPdfExtension(memDoc.Extensions, ns, level) THEN memDoc.Extensions
                        ELSE IF memDoc.Extensions.present
                        THEN [memDoc.Extensions EXCEPT !.dict[ns] = level]
                        ELSE Dictionary([EmptyDictionary EXCEPT ![ns] = level]),
                     last |-> ExtCall("AddPdfExtension", ns, level, memDoc.Extensions)]
    /\ UNCHANGED updRest

\* PdfMemDocument::RemovePdfExtension
RemovePdfExtension ==
    /\ corpus = "extensions"
    /\ \E ns \in Namespaces, level \in Levels :
          memDoc' = [Extensions |->
                        IF HasPdfExtension(memDoc.Extensions, ns, level)
                        THEN [memDoc.Extensions EXCEPT !.dict[RemovedKey(ns)] = NoLevel]
                        ELSE memDoc.Extensions,
                     last |-> ExtCall("RemovePdfExtension", ns, level, memDoc.Extensions)]
    /\ UNCHANGED updRest

\* ------------------------------------------------------------ PdfArray
\* An array that is the value of an indirect object.  An element is a
\* value and the link to its parent, the array, which insertAt, Resize and
\* setChildrenParent set; m_IsDirty is the dirty flag of the owning object.
Values == {1, 2}
Element(value, parent) == [value |-> value, parent |-> parent]
Contents(objects) == [k \in 1..Len(objects) |-> objects[k].value]
Arrays == {<<>>} \cup SeqsUpTo(Values, MaxSize)
ArrayCall(op, before, err) == [op |-> op, before |-> before, err |-> err]
ArrayDocument(objects, dirty) ==
    [m_Objects |-> objects, m_IsDirty |-> dirty, last |-> ArrayCall("none", <<>>, NoErr)]
arrRest == updRest

\* PdfDataContainer::SetDirty: the owner of the array is marked dirty
Container_SetDirty(a) == [a EXCEPT !.m_IsDirty = TRUE]

\* PdfObject::operator= on an element: the value is replaced, the link to
\* the parent stays, and the change is passed on to the parent
AssignElement(a, k, value) ==
    LET assigned == [a EXCEPT !.m_Objects[k].value = value]
    IN  IF a.m_Objects[k].parent THEN Container_SetDirty(assigned) ELSE assigned
RECURSIVE AssignElements(_, _, _)
AssignElements(a, values, n) ==
    IF n = 0 THEN a ELSE AssignElement(AssignElements(a, values, n - 1), n, values[n])

\* PdfArray::setChildrenParent
setChildrenParent(a) ==
    [a EXCEPT !.m_Objects = [k \in 1..Len(@) |-> Element(@[k].value, TRUE)]]

\* PdfArray::insertAt, at the place before the element of index idx
insertAt(a, idx, value) ==
    [a EXCEPT !.m_Objects = SubSeq(@, 1, idx) \o <<Element(value, TRUE)>>
                               \o SubSeq(@, idx + 1, Len(@))]
Erased(objects, first, last) == SubSeq(objects, 1, first) \o SubSeq(objects, last + 1, Len(objects))
Called(a, op, err) == [a EXCEPT !.last = ArrayCall(op, Contents(memDoc.m_Objects), err)]
IsArray == corpus = "array"

\* PdfObject::ResetDirty, after the object was loaded or saved
ResetDirty ==
    /\ IsArray /\ memDoc.m_IsDirty
    /\ memDoc' = Called([memDoc EXCEPT !.m_IsDirty = FALSE], "ResetDirty", NoErr)
    /\ UNCHANGED arrRest

\* PdfArray::RemoveAt
PdfArray_RemoveAt ==
    /\ IsArray
    /\ \E idx \in 0..Len(memDoc.m_Objects) :
          memDoc' =
             IF idx >= Len(memDoc.m_Objects) THEN Called(memDoc, "RemoveAt", "ValueOutOfRange")
             ELSE Called(Container_SetDirty(
                            [memDoc EXCEPT !.m_Objects = Erased(@, idx, idx + 1)]),
                         "RemoveAt", NoErr)
    /\ UNCHANGED arrRest

\* PdfArray::operator=(const PdfArray&): the assignment of the vector
\* either assigns to the elements it has and builds or destroys the rest,
\* or, when rhs is longer than its capacity, builds all elements anew
CopyAssign ==
    /\ IsArray
    /\ \E rhs \in Arrays, reallocate \in BOOLEAN :
          /\ reallocate => Len(rhs) > Len(memDoc.m_Objects)
          /\ LET n == IF reallocate THEN 0 ELSE Min(Len(rhs), Len(memDoc.m_Objects))
                 assigned == AssignElements(memDoc, rhs, n)
                 built == [assigned EXCEPT !.m_Objects =
                              [k \in 1..Len(rhs) |->
                                  IF k <= n THEN @[k] ELSE Element(rhs[k], FALSE)]]
             IN  memDoc' = Called(setChildrenParent(built), "operator=", NoErr)
    /\ UNCHANGED arrRest

\* PdfArray::operator=(PdfArray&&): the vector takes the elements of rhs
MoveAssign ==
    /\ IsArray
    /\ \E rhs \in Arrays :
          memDoc' = Called(setChildrenParent(
                              [memDoc EXCEPT !.m_Objects =
                                  [k \in 1..Len(rhs) |-> Element(rhs[k], TRUE)]]),
                           "operator=&&", NoErr)
    /\ UNCHANGED arrRest

\* PdfArray::Add
Add ==
    /\ IsArray /\ Len(memDoc.m_Objects) < MaxSize
    /\ \E obj \in Values :
          memDoc' = Called(Container_SetDirty(insertAt(memDoc, Len(memDoc.m_Objects), obj)),
                           "Add", NoErr)
    /\ UNCHANGED arrRest

\* PdfArray::SetAt
SetAt ==
    /\ IsArray
    /\ \E idx \in 0..Len(memDoc.m_Objects), obj \in Values :
          memDoc' =
             IF idx >= Len(memDoc.m_Objects) THEN Called(memDoc, "SetAt", "ValueOutOfRange")
             ELSE Called(AssignElement(memDoc, idx + 1, obj), "SetAt", NoErr)
    /\ UNCHANGED arrRest

\* PdfArray::Clear
Clear ==
    /\ IsArray
    /\ memDoc' =
          IF Len(memDoc.m_Objects) = 0 THEN Called(memDoc, "Clear", NoErr)
          ELSE Called(Container_SetDirty([memDoc EXCEPT !.m_Objects = <<>>]), "Clear", NoErr)
    /\ UNCHANGED arrRest

\* PdfArray::insert
insert ==
    /\ IsArray /\ Len(memDoc.m_Objects) < MaxSize
    /\ \E pos \in 0..Len(memDoc.m_Objects), obj \in Values :
          memDoc' = Called(Container_SetDirty(insertAt(memDoc, pos, obj)), "insert", NoErr)
    /\ UNCHANGED arrRest

\* PdfArray::erase(pos) and PdfArray::erase(first, last)
erase ==
    /\ IsArray
    /\ \E first \in 0..Len(memDoc.m_Objects), last \in 0..Len(memDoc.m_Objects) :
          /\ first <= last
          /\ memDoc' = Called(Container_SetDirty(
                                 [memDoc EXCEPT !.m_Objects = Erased(@, first, last)]),
                              "erase", NoErr)
    /\ UNCHANGED arrRest

\* PdfArray::Resize
Resize ==
    /\ IsArray
    /\ \E count \in 0..MaxSize, val \in Values :
          LET currentSize == Len(memDoc.m_Objects)
              resized == [memDoc EXCEPT !.m_Objects =
                             [k \in 1..count |->
                                 IF k <= currentSize THEN @[k] ELSE Element(val, TRUE)]]
          IN  memDoc' = Called(IF currentSize # count THEN Container_SetDirty(resized)
                               ELSE resized,
                               "Resize", NoErr)
    /\ UNCHANGED arrRest

\* PdfArray::resize: the new elements are null objects without a parent
NullValue == 0
resize ==
    /\ IsArray
    /\ \E size \in 0..MaxSize :
          memDoc' = Called([memDoc EXCEPT !.m_Objects =
                               [k \in 1..size |->
                                   IF k <= Len(@) THEN @[k] ELSE Element(NullValue, FALSE)]],
                           "resize", NoErr)
    /\ UNCHANGED arrRest

\* ------------------------------------------------------- specifications
\* the state after the construction of the document and of its repository
InitLoadWith(c) ==
    /\ corpus = c
    /\ file = EmptyFile
    /\ m_StrictParsing = FALSE
    /\ m_LoadOnDemand = FALSE
    /\ m_IgnoreBrokenObjects = TRUE
    /\ m_magicOffset = 0
    /\ oldVersion = FALSE
    /\ m_HasXRefStream = FALSE
    /\ m_XRefOffset = 0
    /\ m_Trailer = NullTrailer
    /\ m_entries = <<>>
    /\ m_ObjectStreams = {}
    /\ m_visitedXRefOffsets = {}
    /\ m_RecursionDepth = 0
    /\ stack = <<>>
    /\ exc = NoErr
    /\ pc = "idle"
    /\ loopI = 0
    /\ lastError = NoErr
    /\ firstDef = [k \in TrailerKeys |-> 0]
    /\ cycleErr = NoCycle
    /\ repeated = NoRepeat
    /\ lastRead = NoRead
    /\ m_Objects = {}
    /\ m_FreeObjects = <<>>
    /\ m_ObjectCount = 1
    /\ m_UnavailableObjects = {}
    /\ m_CanReuseObjectNumbers = TRUE
    /\ docTrailer = {}
    /\ nOps = 0
    /\ nLoads = 0
    /\ lastOp = NoOps
    /\ m_Encrypt = FALSE
    /\ m_password = ""
    /\ encrypt = Unread
    /\ retry = FALSE

\* no object is held outside the repository
InitSide ==
    /\ m_device = NoDevice
    /\ parserObject = NewParserObject(NoDevice)
    /\ lastCall = NoCall
    /\ streamHist = NoStreamHist
    /\ m_Writer = NoWriter
    /\ memDoc = NoDocument
    /\ pages = NoCollection

InitWith(c) == InitLoadWith(c) /\ InitSide

NextParse ==
    \/ Parse
    \/ ReadXRefContents
    \/ ReadXRefSubsections
    \/ ReadNextTrailer
    \/ ReadXRefStreamContents
    \/ ReturnToCaller
    \/ HandleError
    \/ ParseCatch
    \/ ReadObjects
    \/ ReadObject
    \/ ReadCompressedObject
    \/ ParseStreams
    \/ FinishParse
    \/ InitFromParser

\* files whose sections point at each other in every way
InitChain == InitWith("chain")
SpecChain == InitChain /\ [][NextParse]_vars

\* files with the longest chains of revisions the recursion guard lets
\* through, and with longer ones: the reading of the cross-reference
\* sections
NextDeep ==
    \/ Parse
    \/ ReadXRefContents
    \/ ReadXRefSubsections
    \/ ReadNextTrailer
    \/ ReadXRefStreamContents
    \/ ReturnToCaller
    \/ HandleError
    \/ ParseCatch
InitDeep == InitWith("deep")
SpecDeep == InitDeep /\ [][NextDeep]_vars

\* files with a forward chain of sections, with every table
InitXRef == InitWith("xref")
SpecXRef == InitXRef /\ [][NextParse]_vars

\* single-revision files with every table, loaded in each mode
InitLoad == InitWith("load")
SpecLoad == InitLoad /\ [][NextParse]_vars

\* single-revision files whose objects refer to each other, and the
\* operations of the repository on the loaded document
NextRepo ==
    \/ NextParse
    \/ CreateObject
    \/ RemoveObject
    \/ CollectGarbage
    \/ SetCanReuseObjectNumbers
InitRepo == InitWith("repo")
SpecRepo == InitRepo /\ [][NextRepo]_vars

\* one PdfParser used directly on one device, whose file may be encrypted
NextParser ==
    \/ NextParse
    \/ SetPassword
    \/ SetIgnoreBrokenObjects
InitParser == InitWith("parser")
SpecParser == InitParser /\ [][NextParser]_vars

\* one PdfParserObject of a loaded document, read, changed and evicted
NextObject ==
    \/ GetValue
    \/ GetStream
    \/ SetDirty
    \/ FreeMemory
InitObject ==
    /\ InitLoadWith("object")
    /\ m_device \in Devices
    /\ parserObject = NewParserObject(m_device)
    /\ lastCall = NoCall
    /\ streamHist = NoStreamHist
    /\ m_Writer = NoWriter
    /\ memDoc = NoDocument
    /\ pages = NoCollection
SpecObject == InitObject /\ [][NextObject]_vars

\* a PdfStreamedDocument from its construction to its Close
NextStreamed ==
    \/ CreateStreamedObject
    \/ CreateStream
    \/ WriteObject
    \/ BeginAppendStream
    \/ EndAppendStream
    \/ Close
InitStreamed ==
    /\ InitLoadWith("streamed")
    /\ m_device = NoDevice
    /\ parserObject = NewParserObject(NoDevice)
    /\ lastCall = NoCall
    /\ streamHist = NoStreamHist
    /\ \E useXRefStream \in BOOLEAN, enc \in BOOLEAN, debug \in BOOLEAN :
          m_Writer = NewWriter(useXRefStream, enc, debug)
    /\ memDoc = NoDocument
    /\ pages = NoCollection
SpecStreamed == InitStreamed /\ [][NextStreamed]_vars

\* a loaded PdfMemDocument saved as incremental updates to one sink
NextUpdate ==
    \/ Seek
    \/ SaveUpdate
InitUpdate ==
    /\ InitLoadWith("update")
    /\ m_device = NoDevice
    /\ parserObject = NewParserObject(NoDevice)
    /\ lastCall = NoCall
    /\ streamHist = NoStreamHist
    /\ m_Writer = NoWriter
    /\ \E offset \in Offsets, hasXRefStream \in BOOLEAN :
          memDoc = LoadedDocument(offset, hasXRefStream)
    /\ pages = NoCollection
SpecUpdate == InitUpdate /\ [][NextUpdate]_vars

\* a document whose catalog has no /Extensions key or has a dictionary of
\* extensions, and the calls that add and remove extensions
NextExtensions ==
    \/ AddPdfExtension
    \/ RemovePdfExtension
InitExtensions ==
    /\ InitLoadWith("extensions")
    /\ m_device = NoDevice
    /\ parserObject = NewParserObject(NoDevice)
    /\ lastCall = NoCall
    /\ streamHist = NoStreamHist
    /\ m_Writer = NoWriter
    /\ pages = NoCollection
    /\ \E extensions \in {NoExtensions}
                          \cup {Dictionary(dict) : dict \in [Namespaces -> {NoLevel} \cup Levels]} :
          memDoc = CatalogDocument(extensions)
SpecExtensions == InitExtensions /\ [][NextExtensions]_vars

\* an object, clean or dirty, whose value is an array, and the calls that
\* change the array
NextArray ==
    \/ ResetDirty
    \/ PdfArray_RemoveAt
    \/ CopyAssign
    \/ MoveAssign
    \/ Add
    \/ SetAt
    \/ Clear
    \/ insert
    \/ erase
    \/ Resize
    \/ resize
InitArray ==
    /\ InitLoadWith("array")
    /\ m_device = NoDevice
    /\ parserObject = NewParserObject(NoDevice)
    /\ lastCall = NoCall
    /\ streamHist = NoStreamHist
    /\ m_Writer = NoWriter
    /\ pages = NoCollection
    /\ \E values \in Arrays, dirty \in BOOLEAN :
          memDoc = ArrayDocument([k \in 1..Len(values) |-> Element(values[k], TRUE)], dirty)
SpecArray == InitArray /\ [][NextArray]_vars

\* a PdfPageCollection on a well-formed tree, its pages created, inserted,
\* deleted and read
NextPages ==
    \/ CreatePage
    \/ InsertPage
    \/ DeletePage
    \/ GetPage
InitPages ==
    /\ InitLoadWith("pages")
    /\ m_device = NoDevice
    /\ parserObject = NewParserObject(NoDevice)
    /\ lastCall = NoCall
    /\ streamHist = NoStreamHist
    /\ m_Writer = NoWriter
    /\ memDoc = NoDocument
    /\ \E objs \in WellFormedTrees : \E initialSize \in InitialSizes(objs) :
          pages = NewCollection(objs, objs, initialSize)
SpecPages == InitPages /\ [][NextPages]_vars

\* a PdfPageCollection on a tree with or without a cycle, its pages read
NextCycle == GetPage
InitCycle ==
    /\ InitLoadWith("cycle")
    /\ m_device = NoDevice
    /\ parserObject = NewParserObject(NoDevice)
    /\ lastCall = NoCall
    /\ streamHist = NoStreamHist
    /\ m_Writer = NoWriter
    /\ memDoc = NoDocument
    /\ \E base \in {CustomTree, NestedTree} :
          \E objs \in {base} \cup CyclicTrees(base) : \E initialSize \in InitialSizes(objs) :
              pages = NewCollection(objs, base, initialSize)
SpecCycle == InitCycle /\ [][NextCycle]_vars

\* a PdfPageCollection on an empty tree, on a tree whose kids array holds
\* an array, and on trees with or without a kid that is not a reference
NextBroken == GetPage
InitBroken ==
    /\ InitLoadWith("broken")
    /\ m_device = NoDevice
    /\ parserObject = NewParserObject(NoDevice)
    /\ lastCall = NoCall
    /\ streamHist = NoStreamHist
    /\ m_Writer = NoWriter
    /\ memDoc = NoDocument
    /\ \/ pages = NewCollection(EmptyTree, EmptyTree, 0)
       \/ pages = NewCollection(NestedArrayTree, FlatTree, 0)
       \/ \E base \in WellFormedTrees \ {EmptyTree} :
             \E objs \in {base} \cup BrokenTrees(base) :
                \E initialSize \in InitialSizes(objs) :
                    pages = NewCollection(objs, base, initialSize)
SpecBroken == InitBroken /\ [][NextBroken]_vars

\* files with a forward chain of sections, with every trailer
InitTrailer == InitWith("trailer")
SpecTrailer == InitTrailer /\ [][NextParse]_vars

C2_ParseReturnsOrRaises == pc # "crashed"

\* ------------------------------------------------------------------- C3
\* C3: whenever a load has ended in an error, the repository the caller is
\* left with holds no live object and no free-list entry.
C3_FailedLoadLeavesRepositoryEmpty ==
    pc = "failed" => (m_Objects = {} /\ m_FreeObjects = <<>>)

\* ------------------------------------------------------------------- C4
\* C4: in every state of the repository no two live objects carry the same
\* reference, and no reference on the free list is the reference of a live
\* object.
C4_LiveAndFreeAreDisjoint ==
    /\ \A o1, o2 \in m_Objects : o1.ref = o2.ref => o1 = o2
    /\ \A i \in 1..Len(m_FreeObjects) : m_FreeObjects[i] \notin LiveRefs(m_Objects)

\* a free-list entry has just been handed to a new object while another
\* entry is still waiting on the list
C4_Witness ==
    /\ pc = "loaded"
    /\ lastOp[2].op = "create" /\ lastOp[2].reuse
    /\ lastOp[2].freeBefore # <<>>
    /\ lastOp[2].result = Head(lastOp[2].freeBefore)
    /\ lastOp[2].result \in LiveRefs(m_Objects)
    /\ m_FreeObjects # <<>>

\* ------------------------------------------------------------------- C5
\* C5: once a load has succeeded, no live object of the repository has
\* object number 0.
C5_NoLiveObjectZero ==
    pc = "loaded" => \A o \in m_Objects : o.ref[1] # 0

\* ------------------------------------------------------------------- C6
\* a create that directly follows the removal of a live object X, marked
\* free, with reuse enabled
CreateAfterRemove ==
    /\ pc = "loaded"
    /\ lastOp[1].op = "remove" /\ lastOp[1].mark /\ lastOp[1].reuse
    /\ lastOp[2].op = "create"

\* C6 as the specification states it: with reuse enabled, the create that
\* follows the removal of X = (n, g), marked free, returns (n, g + 1)
\* whenever g + 1 is a generation in range.
C6_RemovedNumberIsReused ==
    (CreateAfterRemove /\ lastOp[1].ref[2] + 1 <= MaxGen)
        => lastOp[2].result = <<lastOp[1].ref[1], lastOp[1].ref[2] + 1>>

\* C6: with reuse enabled, the create that follows the removal of
\* X = (n, g), marked free, returns the oldest entry of the free list: that
\* is (n, g + 1) when the list was empty before the removal and g + 1 is in
\* range, and the entry that headed the list before the removal otherwise.
\* When g + 1 is out of range the removal adds nothing to the free list and
\* retires n, and no create returns a retired number.
C6_OldestFreeEntryIsReused ==
    /\ CreateAfterRemove =>
          LET X == lastOp[1].ref
              freeBefore == lastOp[1].freeBefore
          IN  /\ freeBefore # <<>> => lastOp[2].result = Head(freeBefore)
              /\ (freeBefore = <<>> /\ X[2] + 1 <= MaxGen)
                    => lastOp[2].result = <<X[1], X[2] + 1>>
              /\ X[2] + 1 > MaxGen
                    => /\ lastOp[2].freeBefore = freeBefore
                       /\ X[1] \in m_UnavailableObjects
    /\ (pc = "loaded" /\ lastOp[2].op = "create")
          => lastOp[2].result[1] \notin m_UnavailableObjects

\* X is removed while an older entry waits on the free list, and the create
\* that follows returns that older entry
C6_Witness ==
    /\ CreateAfterRemove
    /\ lastOp[1].freeBefore # <<>>
    /\ lastOp[1].ref[2] + 1 <= MaxGen
    /\ lastOp[2].result = Head(lastOp[1].freeBefore)
    /\ lastOp[2].result[1] # lastOp[1].ref[1]

\* ------------------------------------------------------------------- C7
\* the references reached from roots through the values of the objects objs,
\* as the least set closed under "is held by a reached object"
RECURSIVE Closure(_, _)
Closure(objs, reached) ==
    LET more == reached \cup UNION {o.refs : o \in {x \in objs : x.ref \in reached}}
    IN  IF more = reached THEN reached ELSE Closure(objs, more)

C8_FirstTrailerWins ==
    ~m_Trailer.isNull => \A k \in TrailerKeys : m_Trailer.src[k] = firstDef[k]

\* a finished load whose second trailer defines Root, which the first one
\* had defined, and supplies Encrypt, which the first one had not
C8_Witness ==
    /\ pc = "done"
    /\ m_Trailer.src["Size"] = 1 /\ m_Trailer.src["Root"] = 1
    /\ m_Trailer.src["Encrypt"] = 2
    /\ "Root" \in file[2].keys

\* ------------------------------------------------------------------- C9
\* C9: while the cross-reference sections are read, an entry whose parsed
\* flag is set keeps its type, its offset / next-free value and its
\* generation in every later step, whichever subsection or older revision
\* is read.
C9_ParsedEntryIsKept ==
    [][(pc = "xref" /\ pc' = "xref") =>
          \A k \in 1..Len(m_entries) :
              m_entries[k].Parsed =>
                  (k <= Len(m_entries') /\ m_entries'[k] = m_entries[k])]_vars

\* the record a classic table would store for a record of the file
Stored9(rec) ==
    [Parsed |-> TRUE, Type |-> IF rec.type = "n" THEN "InUse" ELSE "Free",
     Variant |-> rec.variant + (IF rec.type = "n" THEN m_magicOffset ELSE 0),
     Generation |-> rec.gen]

\* a subsection was read, one of whose well-formed records differs from the
\* entry already recorded for its object number
C9_Witness ==
    /\ lastRead.valid
    /\ \E i \in 1..Len(lastRead.recs) :
          /\ lastRead.before[lastRead.first + i].Parsed
          /\ lastRead.recs[i].type \in {"n", "f"}
          /\ Stored9(lastRead.recs[i]) # lastRead.before[lastRead.first + i]
          /\ Len(m_entries) >= lastRead.first + i
          /\ m_entries[lastRead.first + i] = lastRead.before[lastRead.first + i]

\* ------------------------------------------------------------------ C10
LegalEOLs == {<<"CR", "LF">>, <<"LF", "CR">>, <<"SP", "CR">>, <<"SP", "LF">>}
Malformed(rec) == rec.type \notin {"n", "f"} \/ rec.eol \notin LegalEOLs

\* the index of the first malformed record of the subsection read last that
\* is addressed to a slot holding no record yet (0: there is none)
FirstBad(lr) ==
    LET bad == {i \in 1..Len(lr.recs) :
                   ~lr.before[lr.first + i].Parsed /\ Malformed(lr.recs[i])}
    IN  IF bad = {} THEN 0 ELSE CHOOSE i \in bad : \A j \in bad : i <= j

C11_SelectedPolicyIsApplied ==
    [][(BeforeParse /\ pc' = "xref") => m_IgnoreBrokenObjects' = m_IgnoreBrokenObjects]_vars

\* ------------------------------------------------------------------ C12
\* C12: a Parse called again on the same parser and the same input, after a
\* Parse that failed with InvalidPassword and once the correct password has
\* been given, does not fail.
C12_RetryWithPasswordLoads == retry => pc # "failed"

\* ------------------------------------------------------------------ C13
\* C13: when the trailer's Encrypt entry is a reference to object n, the load
\* never inserts an object numbered n into the repository: no live object
\* has number n while the objects are read nor after the load.
C13_EncryptObjectIsNotLive ==
    (encrypt.kind = "ref" /\ pc \in {"objects1", "objects2", "streams", "version", "done"})
        => \A o \in m_Objects : o.ref[1] # encrypt.num

\* a finished load of a file whose table lists the encryption dictionary as
\* an in-use object: the other object is live, the dictionary's number is
\* on the free list
C13_Witness ==
    /\ pc = "done" /\ encrypt.kind = "ref" /\ m_Encrypt
    /\ m_Objects # {}
    /\ \E k \in 1..Len(m_FreeObjects) : m_FreeObjects[k] = <<encrypt.num, 1>>

\* ------------------------------------------------------------------ C14
\* C14, as claimed: what a caller reads of a clean object after an
\* eviction, the value and the stream, is what the caller read of it before
\* the eviction, in encrypted documents and with a Crypt filter too.
C14_EvictionKeepsValueAndStream ==
    /\ (lastCall.held.hasValue /\ parserObject.m_IsDelayedLoadDone
            /\ ~parserObject.m_IsDirty)
          => parserObject.m_Variant = lastCall.held.value
    /\ (lastCall.held.hasStream /\ parserObject.m_IsDelayedLoadStreamDone
            /\ ~parserObject.m_IsDirty)
          => parserObject.m_Stream = lastCall.held.stream

\* ------------------------------------------------------------------ C15
\* C15: FreeObjectMemory without force leaves a dirty object as it is, its
\* value, its stream, both delayed-load flags and the dirty flag; on a clean
\* object, or with force, the value and the stream are gone and both
\* delayed loads are armed again, so that the next read parses the bytes of
\* the file.
C15_FreeObjectMemoryFrame ==
    [][lastCall'.op = "FreeObjectMemory" =>
          IF parserObject.m_IsDirty /\ ~lastCall'.force
          THEN parserObject' = parserObject
          ELSE /\ parserObject'.m_Variant = NullVariant
               /\ parserObject'.m_Stream = NoByte
               /\ ~parserObject'.m_IsDelayedLoadDone
               /\ ~parserObject'.m_IsDelayedLoadStreamDone
               /\ DelayedLoadStream(parserObject').m_Variant
                     = ParseValue(parserObject').m_Variant]_vars
C15_Witness ==
    /\ lastCall.op = "FreeObjectMemory" /\ ~lastCall.force
    /\ parserObject.m_IsDirty
    /\ parserObject.m_IsDelayedLoadStreamDone /\ parserObject.m_Stream # NoByte

\* ------------------------------------------------------------------ C16
LoadPhase == pc \in {"objects2", "streams", "version", "done"} /\ exc = NoErr
Listed(objNo) == \A i \in CompressedIn(objNo) : \E o \in m_Objects : o.ref = <<i, 0>>

\* C16, as claimed: a container is parsed at most once, and the first
\* request for it parses it and materializes every object the table lists
\* for it.
C16_FirstRequestParses ==
    LoadPhase =>
        \A objNo \in 0..MaxObj :
            /\ streamHist[objNo].parsed <= 1
            /\ streamHist[objNo].asked >= 1
                  => streamHist[objNo].parsed = 1 /\ Listed(objNo)

\* C16, amended: a container is parsed at most once however often it is
\* asked for; the first request parses it and materializes every object the
\* table lists for it when the repository holds the container as a parsed
\* object of the file, and parses nothing when it does not.
C16_ContainerParsedAtMostOnce ==
    LoadPhase =>
        \A objNo \in 0..MaxObj :
            /\ streamHist[objNo].parsed <= 1
            /\ streamHist[objNo].asked >= 1
                  => IF streamHist[objNo].found
                     THEN streamHist[objNo].parsed = 1 /\ Listed(objNo)
                     ELSE streamHist[objNo].parsed = 0
C16_Witness ==
    /\ pc = "done"
    /\ \E objNo \in 0..MaxObj :
          /\ streamHist[objNo].asked = 2 /\ streamHist[objNo].parsed = 1
          /\ Cardinality(CompressedIn(objNo)) >= 2

\* ------------------------------------------------------------------ C17
\* the bytes from index i on begin with the marker
HasAt(bytes, i, marker) ==
    /\ i >= 1 /\ i + Len(marker) - 1 <= Len(bytes)
    /\ SubSeq(bytes, i, i + Len(marker) - 1) = marker

\* C17, as claimed: Close completes normally and leaves a finished file:
\* the pending object is closed, the cross-reference section is written,
\* the trailer too when no cross-reference stream is used, then startxref,
\* the offset and the end marker; the device is flushed and the writer is
\* detached from the repository.
C17_CloseFinishesTheFile ==
    m_Writer.closed # NotClosed =>
        LET w == m_Writer.m_Device.bytes
        IN  /\ m_Writer.closed = "returned"
            /\ m_Writer.m_Last = 0
            /\ \E k \in 1..Len(w) : HasAt(w, k, XRefSection)
            /\ ~m_Writer.useXRefStream => \E k \in 1..Len(w) : HasAt(w, k, Trailer)
            /\ \E k \in 1..Len(w) : HasAt(w, k, StartXRef)
            /\ HasAt(w, Len(w) - Len(EOF) + 1, EOF)
            /\ m_Writer.flushed
            /\ ~m_Writer.m_attached

\* ------------------------------------------------------------------ C18
\* C18, as claimed: the previous-offset of every appended revision is the
\* offset of the cross-reference section of the revision just before it,
\* the loaded one for the first SaveUpdate and the one the preceding
\* SaveUpdate appended for a later one; and every SaveUpdate starts writing
\* at the end of the sink.
C18_PrevIsTheRevisionBefore ==
    \A k \in 1..Len(memDoc.revisions) :
        /\ memDoc.revisions[k].prev =
              IF k = 1 THEN memDoc.m_PrevXRefOffset ELSE memDoc.revisions[k - 1].xref
        /\ memDoc.revisions[k].start =
              IF k = 1 THEN Beyond ELSE memDoc.revisions[k - 1].xref + 1

\* ---------------------------------------------------------------- C19
\* The page the collection answers for index i: the cached one when the
\* cache holds one, the one the walk of the tree finds otherwise.
PageAt(i) ==
    IF Cache_GetPage(pages.m_cache, i) # 0 THEN Cache_GetPage(pages.m_cache, i)
    ELSE GetPageNode(pages.objs, i, TreeRoot, <<>>).node

\* C19: on a well-formed page tree the collection and its cache behave as
\* a sequence of pages: after any interleaving of CreatePage, InsertPage,
\* DeletePage and GetPage, GetCount is the length of the sequence and
\* GetPage(i) returns the i-th page of the sequence for every i below the
\* count, whether or not pages were cached before the change.
C19_CollectionIsASequence ==
    corpus = "pages" =>
        /\ GetCount(pages.objs) = Len(pages.seq)
        /\ \A i \in 0..(Len(pages.seq) - 1) : PageAt(i) = pages.seq[i + 1]
        /\ pages.last.op = "GetPage" /\ pages.last.index < Len(pages.seq) =>
              /\ pages.last.err = NoErr
              /\ pages.last.result = pages.seq[pages.last.index + 1]
        /\ pages.last.op = "GetPage" /\ pages.last.index >= Len(pages.seq) =>
              pages.last.err = "PageNotFound"

\* a page was put in front of two pages of a tree with nested Pages nodes,
\* one of them cached before the change and one not
C19_Witness ==
    /\ corpus = "pages"
    /\ pages.last.op = "InsertPage" /\ pages.last.index = 0 /\ pages.last.err = NoErr
    /\ Len(pages.seq) = 3
    /\ \E n \in Ids \ {TreeRoot} : pages.objs[n].Type = "Pages" /\ pages.objs[n].Kids # <<>>
    /\ \E i, j \in 1..2 : Cache_GetPage(pages.m_cache, i) # 0
                          /\ Cache_GetPage(pages.m_cache, j) = 0

\* ---------------------------------------------------------------- C20
\* the place of the back-reference: the kid of the tree that is not the
\* kid of the tree without the cycle
BackRefs ==
    {t \in Ids \X (1..MaxPages) :
        /\ t[2] <= Len(pages.base[t[1]].Kids)
        /\ pages.objs[t[1]].Kids[t[2]] # pages.base[t[1]].Kids[t[2]]}
Cyclic == BackRefs # {}

\* the walk to page i passes the back-reference: the node holding it is
\* on the way to the page, and the way leaves the node at the replaced kid
\* or at a later one
ReachesBackRef(i) ==
    LET f == GetPageNode(pages.base, i, TreeRoot, <<>>)
        way == Append(f.parents, f.node)
    IN  \E t \in BackRefs : \E j \in 1..Len(f.parents) :
            /\ f.parents[j] = t[1]
            /\ GetPosInKids(pages.base, way[j + 1], t[1]) + 1 >= t[2]

\* C20 as the specification states it: GetPage(i) on a tree with a cycle
\* raises PageNotFound, and on the tree without the cycle returns page i
\* for every i below the count.
C20_CycleAlwaysRaises ==
    corpus = "cycle" /\ pages.last.op = "GetPage" /\ pages.last.index < GetCount(pages.objs) =>
        IF Cyclic THEN pages.last.err = "PageNotFound"
        ELSE pages.last.err = NoErr
             /\ pages.last.result = Leaves(pages.base, TreeRoot)[pages.last.index + 1]

\* C20: GetPage(i) on a tree with a cycle never recurses without bound: it
\* raises PageNotFound when the walk to page i passes the back-reference
\* and returns page i of the tree without the cycle otherwise; on the tree
\* without the cycle it returns page i for every i below the count.
C20_CycleEndsTheWalk ==
    corpus = "cycle" /\ pages.last.op = "GetPage" /\ pages.last.index < GetCount(pages.objs) =>
        IF ReachesBackRef(pages.last.index)
        THEN pages.last.err = "PageNotFound" /\ pages.last.result = 0
        ELSE pages.last.err = NoErr
             /\ pages.last.result = Leaves(pages.base, TreeRoot)[pages.last.index + 1]

\* the first kid of the node under the root names the root, and GetPage(0)
\* raised PageNotFound
C20_Witness ==
    /\ corpus = "cycle"
    /\ pages.base = NestedTree
    /\ pages.objs[2].Kids[1] = TreeRoot
    /\ pages.last.op = "GetPage" /\ pages.last.index = 0
    /\ pages.last.err = "PageNotFound"

\* ---------------------------------------------------------------- C21
\* the kids entries of the tree that are not references
NonRefs ==
    {t \in Ids \X (1..MaxPages) :
        /\ t[2] <= Len(pages.objs[t[1]].Kids)
        /\ pages.objs[t[1]].Kids[t[2]] = NotAReference}

\* the walk to page i meets such an entry: the node holding it is on the
\* way to the page, and the way leaves the node at that kid or a later one
MeetsNonRef(i) ==
    LET f == GetPageNode(pages.base, i, TreeRoot, <<>>)
        way == Append(f.parents, f.node)
    IN  \E t \in NonRefs : \E j \in 1..Len(f.parents) :
            /\ f.parents[j] = t[1]
            /\ GetPosInKids(pages.base, way[j + 1], t[1]) + 1 >= t[2]

C22_AddThenHasRemoveThenHasNot ==
    corpus = "extensions" =>
        /\ memDoc.last.op = "AddPdfExtension" =>
              /\ HasPdfExtension(memDoc.Extensions, memDoc.last.ns, memDoc.last.level)
              /\ HasPdfExtension(memDoc.last.before, memDoc.last.ns, memDoc.last.level) =>
                    memDoc.Extensions = memDoc.last.before
        /\ memDoc.last.op = "RemovePdfExtension" =>
              ~HasPdfExtension(memDoc.Extensions, memDoc.last.ns, memDoc.last.level)

\* ---------------------------------------------------------------- C23
\* C23: while the cross-reference sections are read the depth counter never
\* exceeds MaxRecursionDepth, and it counts the calls of ReadXRefContents,
\* ReadNextTrailer and ReadXRefStreamContents that are under way: a call
\* that has returned or raised has left the counter as it found it.  (The
\* top frame at stage "enter" has not built its guard yet.)
C23_DepthIsBoundedAndRestored ==
    pc = "xref" =>
        /\ m_RecursionDepth <= MaxRecursionDepth
        /\ m_RecursionDepth =
              Len(stack) - (IF stack # <<>> /\ Top.stage = "enter" THEN 1 ELSE 0)

\* ---------------------------------------------------------------- C24
\* what the first loop of ReadObjectsInternal leaves behind for entry i: an
\* InUse entry with an offset is a live object, or a free number when its
\* bytes were malformed; an InUse entry with offset 0 and generation 0, and
\* a Free entry, is a free or a retired number
IsLive(i) == \E o \in m_Objects : o.ref[1] = i
IsFree(i) == \E k \in 1..Len(m_FreeObjects) : m_FreeObjects[k][1] = i
DirectDone(i) ==
    LET entry == m_entries[i + 1]
    IN  entry.Parsed =>
          CASE entry.Type = "InUse" /\ entry.Variant > 0 -> IsLive(i) \/ IsFree(i)
            [] entry.Type = "InUse" /\ entry.Variant = 0 /\ entry.Generation = 0 -> IsFree(i)
            [] entry.Type = "Free" /\ i # 0 -> IsFree(i) \/ i \in m_UnavailableObjects
            [] OTHER -> TRUE
AllDirectDone == \A i \in 0..(Len(m_entries) - 1) : DirectDone(i)

\* every container a Compressed entry names has been asked for, and the
\* objects of the containers that were parsed are in the repository
AllContainersDone ==
    \A i \in 0..(Len(m_entries) - 1) :
        m_entries[i + 1].Parsed /\ m_entries[i + 1].Type = "Compressed" =>
            /\ m_entries[i + 1].Variant \in m_ObjectStreams
            /\ streamHist[m_entries[i + 1].Variant].parsed > 0 => IsLive(i)

\* C24: a step that resolves the container of a Compressed entry is taken
\* only when every InUse and Free entry of the whole table has been
\* processed, and the step of the eager stream pass only when moreover every
\* container has been resolved; with demand loading there is no such pass.
C24_ContainersThenStreamsComeLast ==
    [][/\ (pc = "objects2" /\ m_ObjectStreams' # m_ObjectStreams) => AllDirectDone
       /\ (pc = "streams" /\ (pc' # pc \/ exc' # exc)) =>
              ~m_LoadOnDemand /\ AllDirectDone /\ AllContainersDone
       /\ pc' = "streams" => ~m_LoadOnDemand]_vars

\* the eager stream pass is about to run on a table with an InUse entry
\* and a Compressed entry whose container was parsed
C24_Witness ==
    /\ pc = "streams" /\ ~m_LoadOnDemand
    /\ \E i, k \in 1..Len(m_entries) :
          /\ m_entries[i].Parsed /\ m_entries[i].Type = "InUse"
          /\ m_entries[k].Parsed /\ m_entries[k].Type = "Compressed"
          /\ streamHist[m_entries[k].Variant].parsed > 0

\* ---------------------------------------------------------------- C25
\* entry i of the table was decoded from a record of type 'n' whose offset
\* field is 0 and whose generation is 0
ZeroRecord(i) ==
    /\ lastRead.valid /\ lastRead.first = 0 /\ i < Len(lastRead.recs)
    /\ lastRead.recs[i + 1].type = "n"
    /\ lastRead.recs[i + 1].variant = 0 /\ lastRead.recs[i + 1].gen = 0
    /\ i < Len(m_entries)
    /\ m_entries[i + 1].Parsed /\ m_entries[i + 1].Type = "InUse"
    /\ m_entries[i + 1].Generation = 0

\* C25: the turn of the first loop of ReadObjectsInternal for such an entry
\* creates no object and adds (i, 1) to the free list in lenient mode, and
\* raises InvalidXRef in strict mode, also when bytes precede the header.
C25_ZeroOffsetRecordIsFree ==
    [][pc = "objects1" /\ exc = NoErr /\ ZeroRecord(loopI) =>
          IF m_StrictParsing
          THEN exc' = "InvalidXRef" /\ m_Objects' = m_Objects
          ELSE /\ exc' = NoErr
               /\ m_Objects' = m_Objects
               /\ m_FreeObjects' = Append(m_FreeObjects, <<loopI, 1>>)]_vars

\* ---------------------------------------------------------------- C26
\* the bytes from index i on are whole objects, objects whose closing
\* marker was replaced by the opening marker of a stream and that are
\* closed before anything else follows, then at most the cross-reference
\* section; only the object last, when there is one, is not closed yet
RECURSIVE ClosedOnce(_, _, _)
ClosedOnce(bytes, i, last) ==
    IF i > Len(bytes) THEN last = 0
    ELSE IF HasAt(bytes, i, XRefSection)
    THEN last = 0 /\ i + Len(XRefSection) - 1 = Len(bytes)
    ELSE \E obj \in WriterObjects :
            /\ HasAt(bytes, i, ObjHead(obj))
            /\ LET j == i + Len(ObjHead(obj))
               IN  IF HasAt(bytes, j, EndObj) THEN ClosedOnce(bytes, j + Len(EndObj), last)
                   ELSE /\ HasAt(bytes, j, Stream)
                        /\ IF j + Len(Stream) > Len(bytes) THEN last = obj
                           ELSE /\ HasAt(bytes, j + Len(Stream), EndStream \o EndObj)
                                /\ ClosedOnce(bytes, j + Len(Stream) + Len(EndStream)
                                                       + Len(EndObj), last)

EntriesOf(obj) == {k \in 1..Len(m_Writer.m_xRef) : m_Writer.m_xRef[k].ref = obj}
WrittenAt(obj) ==
    {p \in 0..Len(m_Writer.m_Device.bytes) : HasAt(m_Writer.m_Device.bytes, p + 1, ObjHead(obj))}
ClosedObjects ==
    {obj \in WriterObjects :
        \E p \in 1..Len(m_Writer.m_Device.bytes) :
            HasAt(m_Writer.m_Device.bytes, p, ObjHead(obj) \o Stream \o EndStream \o EndObj)}

\* C26: under the immediate writer every written object has exactly one
\* in-use entry, whose offset is the position at which its bytes begin;
\* WriteObject leaves the opening marker of the stream in the place of the
\* closing marker of the object and the position where it was after the
\* object was written; the closing of the stream and of the object is
\* emitted once, before the next object and before the cross-reference
\* section, and the object is then neither in the repository nor free.
C26_OneEntryPatchedInPlaceClosedOnce ==
    corpus = "streamed" =>
        LET dev == m_Writer.m_Device
        IN  /\ \A obj \in WriterObjects :
                  /\ WrittenAt(obj) # {} => Cardinality(EntriesOf(obj)) = 1
                  /\ \A k \in EntriesOf(obj) : WrittenAt(obj) = {m_Writer.m_xRef[k].offset}
            /\ m_Writer.last.op = "WriteObject" =>
                  /\ dev.position = m_Writer.last.end
                  /\ dev.position = Len(dev.bytes)
                  /\ HasAt(dev.bytes, dev.position - endObjLenght + 1, Stream)
                  /\ m_Writer.last.end - m_Writer.last.start
                        = Len(ObjHead(m_Writer.last.obj)) + endObjLenght
            /\ ClosedOnce(dev.bytes, Len(Header) + 1, m_Writer.m_Last)
            /\ ClosedObjects \cap (m_Writer.ram \cup m_Writer.free) = {}

\* ---------------------------------------------------------------- C27
FileStreamsInAppendMode == {stream \in m_Writer.m_Append : m_Writer.streams[stream] = "File"}

\* C27: under the immediate writer at most one file stream is in append
\* mode, and neither assertion on m_OpenStream ever fails.
C27_OneFileStreamInAppendMode ==
    corpus = "streamed" =>
        /\ Cardinality(FileStreamsInAppendMode) <= 1
        /\ ~m_Writer.asserted

\* ---------------------------------------------------------------- C28
\* C28: after a successful lenient load every object number from 1 up to
\* the size of the table of entries is the number of a live object or of
\* an entry of the free list.
C28_EveryNumberIsLiveOrFree ==
    pc \in {"done", "loaded"} /\ ~m_StrictParsing =>
        \A i \in 1..(Len(m_entries) - 1) : IsLive(i) \/ IsFree(i)

\* ---------------------------------------------------------------- C29
\* the operations of PdfArray that can change its contents
ChangingOps ==
    {"Add", "insert", "erase", "RemoveAt", "Clear", "Resize", "resize", "SetAt",
     "operator=", "operator=&&"}

\* C29: after every operation of PdfArray that changed the contents of the
\* array, the object that owns the array is dirty.
C29_ChangedArrayIsDirty ==
    corpus = "array" /\ memDoc.last.op \in ChangingOps
                     /\ memDoc.last.before # Contents(memDoc.m_Objects)
        => memDoc.m_IsDirty

\* ---------------------------------------------------------------- C30
\* the bytes the caller gets for the stored byte b when it is decrypted,
\* or left as stored for an object the decryption does not apply to
NotDecrypted ==
    \/ m_device.kind # "object"
    \/ ~m_device.metadataEncrypted /\ m_device.crypt
Cleartext(b) == IF b = NoByte \/ NotDecrypted THEN b ELSE Decrypt(b)

\* C30: in an encrypted document the strings of an object's value and its
\* stream are both decrypted, except that both are left as stored when the
\* metadata is not encrypted and /Filter names Crypt, as a single name or
\* in an array; the trailer and the encryption dictionary are left as
\* stored.
C30_DecryptedUnlessCryptFilter ==
    corpus = "object" /\ m_device.encrypted /\ ~parserObject.m_IsDirty =>
        /\ parserObject.m_IsDelayedLoadDone
              => parserObject.m_Variant.str = Cleartext(m_device.str)
        /\ parserObject.m_IsDelayedLoadStreamDone /\ parserObject.m_HasStream
              => parserObject.m_Stream = Cleartext(m_device.stream)

====
